---- MODULE Spec2Model ----
\* Order ledger of Order_buddy: the orders / customers / order_activities tables,
\* the row triggers the migrations install on public.orders, and the client
\* hooks (useOrders, useCustomers) that write to them.
\* The analytics views (AdvancedAnalytics, AnalyticsDashboard) over the Order
\* values held by the hooks are modelled by the variables listed after them.
\*
\* Units: money columns are DECIMAL(15,2) and are held in minor units (1 = 0.01);
\* tax_rate is DECIMAL(5,2) and is held in hundredths of a percent (1000 = 10.00).
\* A nullable numeric or timestamp column holds <<>> (SQL NULL) or <<v>>.
\* A nullable text column holds NullText or the text.
EXTENDS Integers, Sequences, FiniteSets, TLC

VARIABLES
    orders,            \* public.orders: row id -> row
    customers,         \* public.customers: row id -> row
    order_activities,  \* public.order_activities, in insertion order
    now,               \* the database clock: now() of the latest statement
    lastStmt,          \* history: the latest statement, the row it replaced and public.customers before it
    rollupAtInsert,    \* history: order row id -> public.customers as it was just before that order's INSERT
    localOrders,       \* useOrders: the orders state, a list of Order values
    localCustomers,    \* useCustomers: the customers state
    dateRange,         \* AdvancedAnalytics: the selected window
    clock,             \* the browser's time when it was last read (new Date())
    analytics,         \* AdvancedAnalytics: the analytics state, <<>> until first computed
    dashboard,         \* AnalyticsDashboard: the memoized totals
    toasts,            \* the toasts shown by the latest handler, in order
    calls,             \* the calls the latest handler made to callbacks and collaborators
    lastCall,          \* history: the latest handler, its inputs and the tables before it
    selectedColumns,   \* ExportMenu: the selected column keys, in order
    inputs,            \* create form: the text in the name, amount and email inputs
    formData           \* create form: the formData state

dbVars == <<orders, customers, order_activities, now, lastStmt, rollupAtInsert>>

viewVars == <<localOrders, localCustomers, dateRange, clock, analytics, dashboard>>

handlerVars == <<toasts, calls, lastCall>>

componentVars == <<selectedColumns, inputs, formData>>

uiVars == <<viewVars, handlerVars, componentVars>>

vars == <<dbVars, uiVars>>

-----------------------------------------------------------------------------
\* Bounds of the model

\* Number of timestamped statements (order and customer writes) in a behaviour.
MaxTime == 4

\* Number of order rows alive at once.
MaxOrders == 2
\* Nesting depth of trigger-issued statements at which PostgreSQL gives up
MaxDepth == 3
\* Length of the texts typed into a form
MaxText == 2

\* Resolution of the browser's clock: ticks to the day
TicksPerDay == 2

-----------------------------------------------------------------------------
\* SQL values

Null == <<>>
NullText == "NULL"

Some(v) == <<v>>

IsNull(x) == x = Null

\* COALESCE(x, d) for a nullable numeric x
Coalesce(x, d) == IF IsNull(x) THEN d ELSE x[1]

\* a = b in SQL on text: NULL on either side never yields true
TextEq(a, b) == a # NullText /\ b # NullText /\ a = b

\* a != b in SQL on text, as an IF condition: NULL on either side is not true
TextNe(a, b) == a # NullText /\ b # NullText /\ a # b

\* numeric(p,2) <- numeric: a value given in 1/Scale minor units is rounded to
\* whole minor units, half away from zero (PostgreSQL numeric rounding).
RoundHalfAway(n, d) ==
    LET a == IF n >= 0 THEN n ELSE 0 - n
        q == IF 2 * (a % d) >= d THEN (a \div d) + 1 ELSE a \div d
    IN  IF n >= 0 THEN q ELSE 0 - q

\* Value of column c in a statement's column list, or def when it is not listed
Col(cols, c, def) == IF c \in DOMAIN cols THEN cols[c] ELSE def

Remove(f, k) == [x \in DOMAIN f \ {k} |-> f[x]]

Put(f, k, v) == [x \in DOMAIN f \cup {k} |-> IF x = k THEN v ELSE f[x]]

-----------------------------------------------------------------------------
\* Schema of public.orders

\* orders_status_check
OrderStatuses ==
    {"draft", "pending", "approved", "processing", "shipped", "delivered",
     "completed", "cancelled", "refunded"}

\* Default of orders.status (the column is created by the initial migration)
DefaultStatus == "pending"

\* priority VARCHAR(20) DEFAULT 'medium'
DefaultPriority == "medium"

\* orders_priority_check
OrderPriorities == {"low", "medium", "high", "urgent"}

\* OLD of an INSERT trigger call: every field reads as NULL
NullRow == [status |-> NullText, customer_name |-> NullText, customer_email |-> NullText]

\* The row an INSERT builds from its column list and the column defaults,
\* before any trigger runs. u is auth.uid(), t is now().
OrderCandidate(u, cols, t) ==
    [ id               |-> t,
      order_id         |-> Col(cols, "order_id", NullText),
      user_id          |-> u,
      customer_name    |-> cols.customer_name,
      customer_email   |-> Col(cols, "customer_email", NullText),
      order_amount     |-> cols.order_amount,
      tax_rate         |-> Col(cols, "tax_rate", Some(0)),
      discount_amount  |-> Col(cols, "discount_amount", Some(0)),
      total_amount     |-> Col(cols, "total_amount", Null),
      status           |-> Col(cols, "status", DefaultStatus),
      priority         |-> Col(cols, "priority", DefaultPriority),
      completed_at     |-> Col(cols, "completed_at", Null),
      last_activity_at |-> Col(cols, "last_activity_at", Some(t)),
      created_at       |-> t,
      updated_at       |-> t ]

\* The row an UPDATE builds from OLD and its SET list, before any trigger runs
OrderAssigned(Old, set) ==
    [c \in DOMAIN Old |-> IF c \in DOMAIN set THEN set[c] ELSE Old[c]]

-----------------------------------------------------------------------------
\* Trigger functions

\* order_amount * tax_rate / 100 is exact to 1/RateScale of a minor unit
RateScale == 100 * 100

\* calculate_order_total: the numeric result, in 1/RateScale minor units
\* (type modifiers of a function's result are not applied)
calculate_order_total(order_amount, tax_rate, discount_amount) ==
    order_amount * RateScale + order_amount * tax_rate - discount_amount * RateScale

\* update_order_total with the completed_at stamp taken on every write of a
\* completed row
update_order_total_restamp(New, Old, t) ==
    LET total == calculate_order_total(New.order_amount,
                                       Coalesce(New.tax_rate, 0),
                                       Coalesce(New.discount_amount, 0))
        n1 == [New EXCEPT !.total_amount = Some(RoundHalfAway(total, RateScale))]
    IN  IF TextEq(n1.status, "completed")
        THEN [n1 EXCEPT !.completed_at = Some(t)]
        ELSE n1

\* update_order_total that keeps a total the client supplied
update_order_total_trusting(New, Old, t) ==
    LET total == calculate_order_total(New.order_amount,
                                       Coalesce(New.tax_rate, 0),
                                       Coalesce(New.discount_amount, 0))
        n1 == IF IsNull(New.total_amount)
              THEN [New EXCEPT !.total_amount = Some(RoundHalfAway(total, RateScale))]
              ELSE New
    IN  IF TextEq(n1.status, "completed") /\ TextNe(Old.status, "completed")
        THEN [n1 EXCEPT !.completed_at = Some(t)]
        ELSE n1

\* update_order_total that stamps completed_at only while it is still NULL
update_order_total_once(New, Old, t) ==
    LET total == calculate_order_total(New.order_amount,
                                       Coalesce(New.tax_rate, 0),
                                       Coalesce(New.discount_amount, 0))
        n1 == [New EXCEPT !.total_amount = Some(RoundHalfAway(total, RateScale))]
    IN  IF TextEq(n1.status, "completed") /\ TextNe(Old.status, "completed")
           /\ IsNull(n1.completed_at)
        THEN [n1 EXCEPT !.completed_at = Some(t)]
        ELSE n1

\* update_order_total: NEW.total_amount is assigned (coerced to numeric(15,2)),
\* then completed_at is stamped when status becomes completed
update_order_total(New, Old, t) ==
    LET total == calculate_order_total(New.order_amount,
                                       Coalesce(New.tax_rate, 0),
                                       Coalesce(New.discount_amount, 0))
        n1 == [New EXCEPT !.total_amount = Some(RoundHalfAway(total, RateScale))]
    IN  IF TextEq(n1.status, "completed") /\ TextNe(Old.status, "completed")
        THEN [n1 EXCEPT !.completed_at = Some(t)]
        ELSE n1

\* set_order_last_activity that stamps now() on inserts as well
set_order_last_activity_always(New, op, t) ==
    [New EXCEPT !.last_activity_at = Some(t)]

\* set_order_last_activity
set_order_last_activity(New, op, t) ==
    IF op = "INSERT"
    THEN [New EXCEPT !.last_activity_at = Some(Coalesce(New.last_activity_at, t))]
    ELSE [New EXCEPT !.last_activity_at = Some(t)]

\* update_updated_at_column
update_updated_at_column(New, t) == [New EXCEPT !.updated_at = t]

\* log_order_activity that takes the INSERT branch for every operation
log_order_activity_created(New, Old, op, t) ==
    [ order_id |-> New.id, user_id |-> New.user_id, activity_type |-> "created",
      description |-> "Order created", old_values |-> Null,
      new_values |-> Some(New), created_at |-> t ]

\* log_order_activity recording the row as it is before update_order_total has
\* assigned total_amount
log_order_activity_candidate(New, Old, op, t) ==
    [ order_id |-> New.id, user_id |-> New.user_id,
      activity_type |-> IF op = "INSERT" THEN "created" ELSE "updated",
      description |-> IF op = "INSERT" THEN "Order created" ELSE "Order updated",
      old_values |-> IF op = "INSERT" THEN Null ELSE Some(Old),
      new_values |-> Some([New EXCEPT !.total_amount = Null]), created_at |-> t ]

\* log_order_activity (final version): the row it inserts into order_activities
log_order_activity(New, Old, op, t) ==
    IF op = "INSERT"
    THEN [ order_id |-> New.id, user_id |-> New.user_id, activity_type |-> "created",
           description |-> "Order created", old_values |-> Null,
           new_values |-> Some(New), created_at |-> t ]
    ELSE [ order_id |-> New.id, user_id |-> New.user_id, activity_type |-> "updated",
           description |-> "Order updated", old_values |-> Some(Old),
           new_values |-> Some(New), created_at |-> t ]

\* WHERE user_id = row.user_id AND (name = row.customer_name OR email = row.customer_email)
CustomerMatches(c, row) ==
    /\ c.user_id = row.user_id
    /\ \/ TextEq(c.name, row.customer_name)
       \/ TextEq(c.email, row.customer_email)

\* One UPDATE public.customers SET total_orders = total_orders + n,
\* total_spent = total_spent + amount WHERE <the customer matches row>
AdjustCustomers(custs, row, n, amount) ==
    [c \in DOMAIN custs |->
        IF CustomerMatches(custs[c], row)
        THEN [custs[c] EXCEPT !.total_orders = @ + n, !.total_spent = @ + amount]
        ELSE custs[c]]

\* update_customer_stats: public.customers after the function ran
update_customer_stats(custs, op, New, Old) ==
    CASE op = "INSERT" -> AdjustCustomers(custs, New, 1, New.order_amount)
      [] op = "UPDATE" ->
            AdjustCustomers(AdjustCustomers(custs, Old, 0 - 1, 0 - Old.order_amount),
                            New, 1, New.order_amount)
      [] op = "DELETE" -> AdjustCustomers(custs, Old, 0 - 1, 0 - Old.order_amount)

-----------------------------------------------------------------------------
\* Triggers installed on public.orders once every migration has run.
\* update_customer_stats is created by its migration, but no migration creates a
\* trigger that executes it.

\* The same trigger set plus a trigger executing update_customer_stats
OrderTriggersWithStats ==
    { [name |-> "trigger_update_order_total", fn |-> "update_order_total",
       timing |-> "BEFORE", ops |-> {"INSERT", "UPDATE"}],
      [name |-> "set_order_last_activity_trigger", fn |-> "set_order_last_activity",
       timing |-> "BEFORE", ops |-> {"INSERT", "UPDATE"}],
      [name |-> "update_orders_updated_at", fn |-> "update_updated_at_column",
       timing |-> "BEFORE", ops |-> {"UPDATE"}],
      [name |-> "log_order_activity_trigger", fn |-> "log_order_activity",
       timing |-> "AFTER", ops |-> {"INSERT", "UPDATE"}],
      [name |-> "update_customer_stats_trigger", fn |-> "update_customer_stats",
       timing |-> "AFTER", ops |-> {"INSERT", "UPDATE", "DELETE"}] }

OrderTriggers ==
    { [name |-> "trigger_update_order_total", fn |-> "update_order_total",
       timing |-> "BEFORE", ops |-> {"INSERT", "UPDATE"}],
      [name |-> "set_order_last_activity_trigger", fn |-> "set_order_last_activity",
       timing |-> "BEFORE", ops |-> {"INSERT", "UPDATE"}],
      [name |-> "update_orders_updated_at", fn |-> "update_updated_at_column",
       timing |-> "BEFORE", ops |-> {"UPDATE"}],
      [name |-> "log_order_activity_trigger", fn |-> "log_order_activity",
       timing |-> "AFTER", ops |-> {"INSERT", "UPDATE"}] }

\* The statements on public.orders that a trigger function executes, as in the
\* log_order_activity of migration 20250921065616
\* (UPDATE public.orders SET last_activity_at = now() WHERE id = NEW.id)
OrdersWritesOfRelogging(fn) ==
    IF fn = "log_order_activity" THEN <<"UPDATE">> ELSE <<>>

\* The statements on public.orders that a trigger function executes: none of
\* the functions behind the installed triggers writes public.orders
OrdersWritesOf(fn) == <<>>

\* The order in which PostgreSQL fires row triggers: BEFORE triggers by name,
\* then AFTER triggers by name
TriggerOrder ==
    << "set_order_last_activity_trigger", "trigger_update_order_total",
       "update_orders_updated_at", "log_order_activity_trigger",
       "update_customer_stats_trigger" >>

\* The triggers fired by one statement op on a row of public.orders, in order,
\* each followed by the triggers fired by the statements its function executes
\* on public.orders; nesting deeper than MaxDepth ends in the stack depth error
RECURSIVE TriggerFirings(_, _)
TriggerFirings(op, depth) ==
    IF depth > MaxDepth THEN << "stack depth limit exceeded" >>
    ELSE LET fire[i \in 0..Len(TriggerOrder)] ==
                 IF i = 0 THEN <<>>
                 ELSE LET trs == {tr \in OrderTriggers :
                                     tr.name = TriggerOrder[i] /\ op \in tr.ops}
                      IN  IF trs = {} THEN fire[i - 1]
                          ELSE LET tr == CHOOSE x \in trs : TRUE
                                   nested == OrdersWritesOf(tr.fn)
                               IN  fire[i - 1] \o << tr.name >> \o
                                   (IF nested = <<>> THEN <<>>
                                    ELSE TriggerFirings(nested[1], depth + 1))
         IN  fire[Len(TriggerOrder)]

\* The triggers on public.orders once migration 20250921065616 has run: the
\* total trigger and log_order_activity_trigger, recreated AFTER INSERT OR UPDATE
OrderTriggers20250921 ==
    { [name |-> "trigger_update_order_total", fn |-> "update_order_total",
       timing |-> "BEFORE", ops |-> {"INSERT", "UPDATE"}],
      [name |-> "log_order_activity_trigger", fn |-> "log_order_activity",
       timing |-> "AFTER", ops |-> {"INSERT", "UPDATE"}] }

\* Functions of that migration that write nothing to public.orders
OrdersWritesOf20250921Nothing(fn) == <<>>

\* The statements on public.orders that the functions of that migration
\* execute: log_order_activity runs
\* UPDATE public.orders SET last_activity_at = now() WHERE id = NEW.id
OrdersWritesOf20250921(fn) ==
    IF fn = "log_order_activity" THEN <<"UPDATE">> ELSE <<>>

\* The triggers fired by one statement op on a row of public.orders with the
\* triggers of migration 20250921065616 installed
RECURSIVE TriggerFirings20250921(_, _)
TriggerFirings20250921(op, depth) ==
    IF depth > MaxDepth THEN << "stack depth limit exceeded" >>
    ELSE LET fire[i \in 0..Len(TriggerOrder)] ==
                 IF i = 0 THEN <<>>
                 ELSE LET trs == {tr \in OrderTriggers20250921 :
                                     tr.name = TriggerOrder[i] /\ op \in tr.ops}
                      IN  IF trs = {} THEN fire[i - 1]
                          ELSE LET tr == CHOOSE x \in trs : TRUE
                                   nested == OrdersWritesOf20250921(tr.fn)
                               IN  fire[i - 1] \o << tr.name >> \o
                                   (IF nested = <<>> THEN <<>>
                                    ELSE TriggerFirings20250921(nested[1], depth + 1))
         IN  fire[Len(TriggerOrder)]

\* A chain of trigger firings ran into the stack depth limit
HitDepthLimit(fired) ==
    \E i \in DOMAIN fired : fired[i] = "stack depth limit exceeded"

\* Some installed trigger executes function fn at this timing for this operation
Fires(fn, timing, op) ==
    \E tr \in OrderTriggers : tr.fn = fn /\ tr.timing = timing /\ op \in tr.ops

\* The BEFORE ... FOR EACH ROW triggers, in the order PostgreSQL fires them
\* (by trigger name); the result is the row that is stored
BeforeRow(op, New, Old, t) ==
    LET r1 == IF Fires("set_order_last_activity", "BEFORE", op)
              THEN set_order_last_activity(New, op, t) ELSE New
        r2 == IF Fires("update_order_total", "BEFORE", op)
              THEN update_order_total(r1, Old, t) ELSE r1
        r3 == IF Fires("update_updated_at_column", "BEFORE", op)
              THEN update_updated_at_column(r2, t) ELSE r2
    IN  r3

\* public.order_activities after the AFTER triggers of an insert or update
AfterRowActivities(op, New, Old, t) ==
    IF Fires("log_order_activity", "AFTER", op)
    THEN Append(order_activities, log_order_activity(New, Old, op, t))
    ELSE order_activities

\* An order write that counts one more order on every stored customer, whether
\* or not the customer matches the order
AfterRowCustomersUnmatched(op, New, Old) ==
    [c \in DOMAIN customers |-> [customers[c] EXCEPT !.total_orders = @ + 1]]

\* public.customers after the triggers of an order write
AfterRowCustomers(op, New, Old) ==
    IF Fires("update_customer_stats", "AFTER", op) \/ Fires("update_customer_stats", "BEFORE", op)
    THEN update_customer_stats(customers, op, New, Old)
    ELSE customers

-----------------------------------------------------------------------------
\* Statements on public.orders. u is auth.uid(); every statement runs at a
\* later now() than the one before it.

\* INSERT INTO orders (cols), issued by u; request is the createOrder request
\* behind it, if any
OrderInsertStmt(u, cols, request) ==
    /\ now < MaxTime
    /\ Cardinality(DOMAIN orders) < MaxOrders
    /\ LET t   == now + 1
           New == BeforeRow("INSERT", OrderCandidate(u, cols, t), NullRow, t)
       IN  /\ New.status \in OrderStatuses
           /\ New.priority \in OrderPriorities
           /\ orders' = Put(orders, t, New)
           /\ order_activities' = AfterRowActivities("INSERT", New, NullRow, t)
           /\ customers' = AfterRowCustomers("INSERT", New, NullRow)
           /\ now' = t
           /\ lastStmt' = [op |-> "INSERT", id |-> t, request |-> request,
                           old |-> Null, customers_before |-> customers,
                           fired |-> TriggerFirings("INSERT", 0)]
           /\ rollupAtInsert' = Put(rollupAtInsert, t, customers)

\* The INSERT issued on its own: the client state stays as it is
OrderInsert(u, cols, request) ==
    OrderInsertStmt(u, cols, request) /\ UNCHANGED uiVars

\* UPDATE orders SET set WHERE id = id AND user_id = u
OrderUpdate(u, id, set) ==
    /\ now < MaxTime
    /\ id \in DOMAIN orders
    /\ orders[id].user_id = u
    /\ LET t   == now + 1
           Old == orders[id]
           New == BeforeRow("UPDATE", OrderAssigned(Old, set), Old, t)
       IN  /\ New.status \in OrderStatuses
           /\ orders' = [orders EXCEPT ![id] = New]
           /\ order_activities' = AfterRowActivities("UPDATE", New, Old, t)
           /\ customers' = AfterRowCustomers("UPDATE", New, Old)
           /\ now' = t
           /\ lastStmt' = [op |-> "UPDATE", id |-> id, request |-> Null,
                           old |-> Some(Old), customers_before |-> customers,
                           fired |-> TriggerFirings("UPDATE", 0)]
           /\ UNCHANGED <<rollupAtInsert, uiVars>>

\* The DELETE without the cascade to order_activities
OrderDeleteKeepingActivities(u, id) ==
    /\ now < MaxTime
    /\ id \in DOMAIN orders
    /\ orders[id].user_id = u
    /\ orders' = Remove(orders, id)
    /\ now' = now + 1
    /\ lastStmt' = [op |-> "DELETE", id |-> id, request |-> Null,
                    old |-> Some(orders[id]), customers_before |-> customers,
                    fired |-> TriggerFirings("DELETE", 0)]
    /\ UNCHANGED <<order_activities, customers, rollupAtInsert, uiVars>>

\* DELETE FROM orders WHERE id = id AND user_id = u; order_activities rows go
\* with it (ON DELETE CASCADE)
OrderDelete(u, id) ==
    /\ now < MaxTime
    /\ id \in DOMAIN orders
    /\ orders[id].user_id = u
    /\ LET Old == orders[id]
       IN  /\ orders' = Remove(orders, id)
           /\ order_activities' = SelectSeq(order_activities, LAMBDA a : a.order_id # id)
           /\ customers' = AfterRowCustomers("DELETE", NullRow, Old)
           /\ now' = now + 1
           /\ lastStmt' = [op |-> "DELETE", id |-> id, request |-> Null,
                           old |-> Some(Old), customers_before |-> customers,
                           fired |-> TriggerFirings("DELETE", 0)]
           /\ UNCHANGED <<rollupAtInsert, uiVars>>

\* The same INSERT when the INSERT INTO public.order_activities executed by
\* log_order_activity raises (for one, the row is rejected by the policy
\* WITH CHECK (auth.uid() = user_id)): the function has no EXCEPTION block, so
\* the error leaves the AFTER ROW trigger and PostgreSQL aborts the statement
\* with everything it wrote
OrderInsertAuditError(u, cols) ==
    /\ now < MaxTime
    /\ Cardinality(DOMAIN orders) < MaxOrders
    /\ Fires("log_order_activity", "AFTER", "INSERT")
    /\ LET t   == now + 1
           New == BeforeRow("INSERT", OrderCandidate(u, cols, t), NullRow, t)
       IN  /\ New.status \in OrderStatuses
           /\ now' = t
           /\ lastStmt' = [op |-> "INSERT_ERROR", id |-> t, request |-> Null,
                           old |-> Null, customers_before |-> customers,
                           fired |-> TriggerFirings("INSERT", 0)]
    /\ UNCHANGED <<orders, order_activities, customers, rollupAtInsert, uiVars>>

\* The same UPDATE when the INSERT INTO public.order_activities raises
OrderUpdateAuditError(u, id, set) ==
    /\ now < MaxTime
    /\ id \in DOMAIN orders
    /\ orders[id].user_id = u
    /\ Fires("log_order_activity", "AFTER", "UPDATE")
    /\ LET t   == now + 1
           Old == orders[id]
           New == BeforeRow("UPDATE", OrderAssigned(Old, set), Old, t)
       IN  /\ New.status \in OrderStatuses
           /\ now' = t
           /\ lastStmt' = [op |-> "UPDATE_ERROR", id |-> id, request |-> Null,
                           old |-> Some(Old), customers_before |-> customers,
                           fired |-> TriggerFirings("UPDATE", 0)]
    /\ UNCHANGED <<orders, order_activities, customers, rollupAtInsert, uiVars>>

\* INSERT INTO orders with the triggers of migration 20250921065616 installed:
\* when the chain of nested statements runs into the stack depth limit the
\* error aborts the statement with everything it wrote
OrderInsert20250921(u, cols) ==
    /\ now < MaxTime
    /\ Cardinality(DOMAIN orders) < MaxOrders
    /\ LET t     == now + 1
           New   == update_order_total(OrderCandidate(u, cols, t), NullRow, t)
           fired == TriggerFirings20250921("INSERT", 0)
       IN  /\ New.status \in OrderStatuses
           /\ now' = t
           /\ lastStmt' = [op |-> "INSERT_20250921", id |-> t, request |-> Null,
                           old |-> Null, customers_before |-> customers,
                           fired |-> fired]
           /\ IF HitDepthLimit(fired)
              THEN UNCHANGED <<orders, order_activities>>
              ELSE /\ orders' = Put(orders, t, [New EXCEPT !.last_activity_at = Some(t)])
                   /\ order_activities' =
                          Append(order_activities, log_order_activity(New, NullRow, "INSERT", t))
    /\ UNCHANGED <<customers, rollupAtInsert, uiVars>>

\* UPDATE orders SET set WHERE id = id AND user_id = u with the triggers of
\* migration 20250921065616 installed
OrderUpdate20250921(u, id, set) ==
    /\ now < MaxTime
    /\ id \in DOMAIN orders
    /\ orders[id].user_id = u
    /\ LET t     == now + 1
           Old   == orders[id]
           New   == update_order_total(OrderAssigned(Old, set), Old, t)
           fired == TriggerFirings20250921("UPDATE", 0)
       IN  /\ New.status \in OrderStatuses
           /\ now' = t
           /\ lastStmt' = [op |-> "UPDATE_20250921", id |-> id, request |-> Null,
                           old |-> Some(Old), customers_before |-> customers,
                           fired |-> fired]
           /\ IF HitDepthLimit(fired)
              THEN UNCHANGED <<orders, order_activities>>
              ELSE /\ orders' = [orders EXCEPT ![id] = [New EXCEPT !.last_activity_at = Some(t)]]
                   /\ order_activities' =
                          Append(order_activities, log_order_activity(New, Old, "UPDATE", t))
    /\ UNCHANGED <<customers, rollupAtInsert, uiVars>>

-----------------------------------------------------------------------------
\* Statements on public.customers (useCustomers)

\* createCustomer: total_orders and total_spent take their column defaults
CustomerInsert(u, req) ==
    /\ now < MaxTime
    /\ LET t == now + 1
       IN  /\ customers' = Put(customers, t,
                  [ id |-> t, user_id |-> u, name |-> req.name,
                    email |-> Col(req, "email", NullText),
                    total_orders |-> 0, total_spent |-> 0,
                    created_at |-> t, updated_at |-> t ])
           /\ now' = t
           /\ lastStmt' = [op |-> "CUSTOMER", id |-> t, request |-> Null,
                           old |-> Null, customers_before |-> customers, fired |-> <<>>]
           /\ UNCHANGED <<orders, order_activities, rollupAtInsert, uiVars>>

\* updateCustomer: the fields of updates that are defined are written, and
\* update_customers_updated_at refreshes updated_at
CustomerUpdate(u, id, updates) ==
    /\ now < MaxTime
    /\ id \in DOMAIN customers
    /\ customers[id].user_id = u
    /\ LET t == now + 1
       IN  /\ customers' = [customers EXCEPT ![id] =
                  [ @ EXCEPT !.name = Col(updates, "name", @),
                             !.email = Col(updates, "email", @),
                             !.updated_at = t ]]
           /\ now' = t
           /\ lastStmt' = [op |-> "CUSTOMER", id |-> id, request |-> Null,
                           old |-> Null, customers_before |-> customers, fired |-> <<>>]
           /\ UNCHANGED <<orders, order_activities, rollupAtInsert, uiVars>>

\* deleteCustomer
CustomerDelete(u, id) ==
    /\ now < MaxTime
    /\ id \in DOMAIN customers
    /\ customers[id].user_id = u
    /\ customers' = Remove(customers, id)
    /\ now' = now + 1
    /\ lastStmt' = [op |-> "CUSTOMER", id |-> id, request |-> Null,
                    old |-> Null, customers_before |-> customers, fired |-> <<>>]
    /\ UNCHANGED <<orders, order_activities, rollupAtInsert, uiVars>>

-----------------------------------------------------------------------------
\* Inputs

Users == {"u1", "u2"}

NoCols == [c \in {} |-> Null]

\* order_amount / tax_rate / discount_amount of the statements tried:
\* 1000.00 at 10.00% less 50.00; 0.05 at 10.00% with the discount left to its
\* default; 0.05 with a NULL tax rate less 50.00
MoneyCols ==
    { [order_amount |-> 100000, tax_rate |-> Some(1000), discount_amount |-> Some(5000)],
      [order_amount |-> 5, tax_rate |-> Some(1000)],
      [order_amount |-> 5, tax_rate |-> Null, discount_amount |-> Some(5000)] }

\* A total_amount the client sends along, or none
ClientTotalCols == { NoCols, [total_amount |-> Some(7)] }

\* status / last_activity_at the inserting client sends along, or none
LifecycleCols(t) ==
    { NoCols, [status |-> "completed"], [last_activity_at |-> Some(t + 2)] }

\* SET lists of the updates tried
OrderSets ==
    { [status |-> "completed"], [status |-> "shipped"], [tax_rate |-> Null],
      [order_amount |-> 100000], [total_amount |-> Some(7)] }

\* EnhancedCreateOrderForm.calculatedTotal, in 1/RateScale minor units:
\* orderAmount + orderAmount * (taxRate || 0) / 100 - (discountAmount || 0)
calculatedTotal(data) ==
    data.orderAmount * RateScale + data.orderAmount * data.taxRate
        - data.discountAmount * RateScale

\* createOrder requests: the form's fields (EnhancedCreateOrderForm)
CreateOrderRequests ==
    { [customerName |-> "a", orderAmount |-> 100000, taxRate |-> 1000, discountAmount |-> 5000],
      [customerName |-> "a", orderAmount |-> 5, taxRate |-> 0, discountAmount |-> 0] }

\* Column lists and SET lists of the order statements tried against customers
RollupInsertCols ==
    { [customer_name |-> "a", order_amount |-> 100],
      [customer_name |-> "a", customer_email |-> "x@", order_amount |-> 250],
      [customer_name |-> "b", order_amount |-> 100] }

RollupOrderSets ==
    { [order_amount |-> 250], [customer_name |-> "b"] }

\* createCustomer requests, each with the user who issues it
CustomerRequests ==
    { <<"u1", [name |-> "a"]>>,
      <<"u1", [name |-> "b", email |-> "x@"]>>,
      <<"u2", [name |-> "a"]>> }

CustomerUpdates == { [name |-> "b"], [email |-> "x@"] }

-----------------------------------------------------------------------------
\* The analytics views (AdvancedAnalytics, AnalyticsDashboard). They work on the
\* Order values held by useOrders. Amounts are in minor units; an optional
\* number field holds <<>> (undefined) or <<v>>. A Date is a count of ticks,
\* TicksPerDay to the local day, since the start of the first day of EpochYear.
\* JavaScript divisions are kept as exact fractions.

\* First year of the calendar
EpochYear == 2023

IsLeapYear(y) == (y % 4 = 0 /\ y % 100 # 0) \/ y % 400 = 0

DaysInYear(y) == IF IsLeapYear(y) THEN 366 ELSE 365

DaysInMonth(y, m) ==
    IF m = 2 THEN (IF IsLeapYear(y) THEN 29 ELSE 28)
    ELSE IF m \in {4, 6, 9, 11} THEN 30 ELSE 31

\* The day count of the calendar date y-m-d
RECURSIVE DaysBeforeYear(_)
DaysBeforeYear(y) ==
    IF y <= EpochYear THEN 0 ELSE DaysBeforeYear(y - 1) + DaysInYear(y - 1)

RECURSIVE DaysBeforeMonth(_, _)
DaysBeforeMonth(y, m) ==
    IF m <= 1 THEN 0 ELSE DaysBeforeMonth(y, m - 1) + DaysInMonth(y, m - 1)

DayNumber(y, m, d) == DaysBeforeYear(y) + DaysBeforeMonth(y, m) + (d - 1)

\* The calendar date of a day count
RECURSIVE MonthOfDay(_, _, _)
MonthOfDay(y, m, n) ==
    IF n < DaysInMonth(y, m) THEN [year |-> y, month |-> m, day |-> n + 1]
    ELSE MonthOfDay(y, m + 1, n - DaysInMonth(y, m))

RECURSIVE YearOfDay(_, _)
YearOfDay(y, n) ==
    IF n < DaysInYear(y) THEN MonthOfDay(y, 1, n)
    ELSE YearOfDay(y + 1, n - DaysInYear(y))

\* The local calendar date of a Date
CalendarDate(date) == YearOfDay(EpochYear, date \div TicksPerDay)

\* date-fns format(date, "MMM dd"): month and day of the month, no year
FormatMMMdd(date) ==
    LET c == CalendarDate(date) IN << c.month, c.day >>

\* date-fns format(date, "MMM yyyy")
FormatMMMyyyy(date) ==
    LET c == CalendarDate(date) IN << c.month, c.year >>

\* date-fns subDays(date, amount): the same time of day, amount days earlier
subDays(date, amount) == date - amount * TicksPerDay

\* JavaScript numbers that come out of a division
NaN == [kind |-> "NaN", n |-> 0, d |-> 0]

Infinity(sign) == [kind |-> "Infinity", n |-> sign, d |-> 0]

RECURSIVE GCD(_, _)
GCD(a, b) == IF b = 0 THEN a ELSE GCD(b, a % b)

Abs(a) == IF a < 0 THEN 0 - a ELSE a

\* The number a / b, b # 0, in lowest terms
Fraction(a, b) ==
    LET g == GCD(Abs(a), Abs(b))
        s == IF b < 0 THEN 0 - 1 ELSE 1
    IN  [kind |-> "finite", n |-> s * (a \div g), d |-> s * (b \div g)]

Zero == [kind |-> "finite", n |-> 0, d |-> 1]

\* a / b in JavaScript
JsDivide(a, b) ==
    IF b # 0 THEN Fraction(a, b)
    ELSE IF a = 0 THEN NaN
    ELSE Infinity(IF a < 0 THEN 0 - 1 ELSE 1)

\* x || y for a number x that came out of a division: NaN and 0 are falsy
JsOr(x, y) == IF x.kind = "NaN" \/ x = Zero THEN y ELSE x

\* order.totalAmount || order.orderAmount: undefined and 0 are falsy
OrderRevenue(order) ==
    IF order.totalAmount = Null \/ order.totalAmount = Some(0)
    THEN order.orderAmount
    ELSE order.totalAmount[1]

\* list.reduce((sum, order) => sum + (order.totalAmount || order.orderAmount), 0)
RECURSIVE SumRevenue(_)
SumRevenue(list) ==
    IF list = <<>> THEN 0 ELSE OrderRevenue(Head(list)) + SumRevenue(Tail(list))

\* new Set(list.map(order => order.customerName)).size
CustomerCount(list) == Cardinality({ list[i].customerName : i \in DOMAIN list })

\* daysBack of a dateRange
DaysBack(range) == IF range = "7d" THEN 7 ELSE IF range = "30d" THEN 30 ELSE 90

\* previous-period orders that are not cut off at startDate
PrevOrdersToDate(list, prevStartDate, startDate) ==
    SelectSeq(list, LAMBDA order : order.orderDate >= prevStartDate)

\* orders.filter(order => new Date(order.orderDate) >= startDate)
FilteredOrders(list, startDate) ==
    SelectSeq(list, LAMBDA order : order.orderDate >= startDate)

\* orders.filter(order => orderDate >= prevStartDate && orderDate < startDate)
PrevOrders(list, prevStartDate, startDate) ==
    SelectSeq(list, LAMBDA order :
        order.orderDate >= prevStartDate /\ order.orderDate < startDate)

\* growth computed without looking at the previous value first
GrowthUnguarded(current, previous) == JsDivide((current - previous) * 100, previous)

\* previous ? ((current - previous) / previous) * 100 : 0
Growth(current, previous) ==
    IF previous # 0 THEN JsDivide((current - previous) * 100, previous) ELSE Zero

\* The keys of a JavaScript object after obj[keys[1]] = ..., obj[keys[2]] = ...,
\* in the order Object.entries lists them: each key once, at the place of its
\* first assignment
ObjectKeys(keys) ==
    LET numbered == [i \in DOMAIN keys |-> << i, keys[i] >>]
        first    == SelectSeq(numbered,
                        LAMBDA p : \A j \in 1..(p[1] - 1) : keys[j] # p[2])
    IN  [i \in DOMAIN first |-> first[i][2]]

Reverse(seq) == [i \in DOMAIN seq |-> seq[Len(seq) + 1 - i]]

\* dailyData zero-filled for i = 0 .. daysBack, the day of startDate included
DailyKeysFromStartDate(clockNow, daysBack) ==
    ObjectKeys([i \in 1..(daysBack + 1) |-> FormatMMMdd(subDays(clockNow, i - 1))])

\* The keys of dailyData after the loop that zero-fills it:
\* format(subDays(now, i), "MMM dd") for i = 0 .. daysBack - 1
DailyKeys(clockNow, daysBack) ==
    ObjectKeys([i \in 1..daysBack |-> FormatMMMdd(subDays(clockNow, i - 1))])

\* The keys of monthlyData after the loop that zero-fills it:
\* format(subDays(now, i * 30), "MMM yyyy") for i = 0 .. 5
MonthlyKeys(clockNow) ==
    ObjectKeys([i \in 1..6 |-> FormatMMMyyyy(subDays(clockNow, (i - 1) * 30))])

\* AdvancedAnalytics.calculateAnalytics: the totals, growth figures and series it
\* hands to setAnalytics
calculateAnalytics(list, range, clockNow) ==
    LET daysBack       == DaysBack(range)
        startDate      == subDays(clockNow, daysBack)
        filteredOrders == FilteredOrders(list, startDate)
        totalRevenue   == SumRevenue(filteredOrders)
        totalOrders    == Len(filteredOrders)
        totalCustomers == CustomerCount(filteredOrders)
        prevStartDate  == subDays(startDate, daysBack)
        prevOrders     == PrevOrders(list, prevStartDate, startDate)
        prevRevenue    == SumRevenue(prevOrders)
        dailyData      == DailyKeys(clockNow, daysBack)
        monthlyData    == MonthlyKeys(clockNow)
        onDay(key)     == SelectSeq(filteredOrders,
                              LAMBDA order : FormatMMMdd(order.orderDate) = key)
        inMonth(key)   == SelectSeq(list,
                              LAMBDA order : FormatMMMyyyy(order.orderDate) = key)
    IN  [ totalRevenue      |-> totalRevenue,
          totalOrders       |-> totalOrders,
          totalCustomers    |-> totalCustomers,
          revenueGrowth     |-> Growth(totalRevenue, prevRevenue),
          orderGrowth       |-> Growth(totalOrders, Len(prevOrders)),
          customerGrowth    |-> Growth(totalCustomers, CustomerCount(prevOrders)),
          averageOrderValue |-> IF totalOrders # 0
                                THEN JsDivide(totalRevenue, totalOrders) ELSE Zero,
          dailyRevenue      |-> Reverse(
              [i \in DOMAIN dailyData |->
                  [ date    |-> dailyData[i],
                    revenue |-> SumRevenue(onDay(dailyData[i])),
                    orders  |-> Len(onDay(dailyData[i])) ]]),
          monthlyTrends     |-> Reverse(
              [i \in DOMAIN monthlyData |->
                  [ month     |-> monthlyData[i],
                    revenue   |-> SumRevenue(inMonth(monthlyData[i])),
                    orders    |-> Len(inMonth(monthlyData[i])),
                    customers |-> CustomerCount(inMonth(monthlyData[i])) ]]) ]

\* AnalyticsDashboard: totalOrders, totalRevenue and avgOrderValue of its useMemo
DashboardAnalytics(list) ==
    [ totalOrders   |-> Len(list),
      totalRevenue  |-> SumRevenue(list),
      avgOrderValue |-> JsOr(JsDivide(SumRevenue(list), Len(list)), Zero) ]

\* Inputs of the views

\* The Date of tick number tick of the calendar date y-m-d
At(y, m, d, tick) == DayNumber(y, m, d) * TicksPerDay + tick

\* The time when the page is opened, and the times new Date() is read at
ClockStart == At(2024, 1, 31, 1)

Clocks ==
    { ClockStart, At(2024, 3, 1, 0), At(2024, 6, 15, 1) }

DateRanges == { "7d", "30d", "90d" }

Ord(name, amount, total, date) ==
    [ customerName |-> name, orderAmount |-> amount, totalAmount |-> total,
      orderDate |-> date, status |-> "pending" ]

\* The lists of Order values the views are given at time c:
\*  no orders;
\*  500.00 in two orders of the last 7 days and 250.00 in one order of the 7 days before;
\*  orders of the last days only, one with a total above its amount;
\*  an order whose totalAmount is 0, and an older one;
\*  an order dated one tick after c, and older ones;
\*  orders exactly 7 and 14 days old, and one tick older than that;
\*  orders of earlier months;
\*  an order of amount 0 in the 7 days before the last 7, and two newer ones
OrderLists(c) ==
    { <<>>,
      << Ord("a", 20000, Null, subDays(c, 1)), Ord("b", 30000, Null, subDays(c, 3)),
         Ord("a", 25000, Null, subDays(c, 10)) >>,
      << Ord("a", 10000, Some(12000), subDays(c, 2)), Ord("a", 5000, Null, c) >>,
      << Ord("a", 10000, Some(0), subDays(c, 1)), Ord("b", 10000, Some(11000), subDays(c, 8)) >>,
      << Ord("a", 10000, Null, c + 1), Ord("b", 7000, Null, subDays(c, 20)),
         Ord("c", 100, Null, subDays(c, 45)) >>,
      << Ord("a", 100, Null, subDays(c, 7)), Ord("b", 200, Null, subDays(c, 14)),
         Ord("c", 400, Null, subDays(c, 14) - 1), Ord("a", 800, Null, subDays(c, 7) - 1) >>,
      << Ord("a", 100, Null, subDays(c, 40)), Ord("b", 200, Null, subDays(c, 100)),
         Ord("a", 400, Null, subDays(c, 170)), Ord("c", 800, Null, subDays(c, 95)) >>,
      << Ord("a", 0, Null, subDays(c, 9)), Ord("a", 500, Null, subDays(c, 2)),
         Ord("b", 300, Null, subDays(c, 1)) >> }

CustomerLists ==
    { <<>>, << [name |-> "a", totalSpent |-> 0, totalOrders |-> 0] >> }

\* The effect of AdvancedAnalytics: calculateAnalytics() runs, reading the time,
\* if (orders.length && customers.length); otherwise analytics stays as it is
AnalyticsEffect(list, custs, range) ==
    IF Len(list) # 0 /\ Len(custs) # 0
    THEN \E c \in Clocks :
            /\ c >= clock
            /\ clock' = c
            /\ analytics' = Some(calculateAnalytics(list, range, c))
    ELSE UNCHANGED <<clock, analytics>>

\* setOrders(list), and the views that depend on orders render again
SetOrders(list) ==
    /\ localOrders' = list
    /\ dashboard' = DashboardAnalytics(list)
    /\ AnalyticsEffect(list, localCustomers, dateRange)
    /\ UNCHANGED <<localCustomers, dateRange>>
    /\ UNCHANGED <<dbVars, handlerVars, componentVars>>

\* setCustomers(custs)
SetCustomers(custs) ==
    /\ localCustomers' = custs
    /\ AnalyticsEffect(localOrders, custs, dateRange)
    /\ UNCHANGED <<localOrders, dateRange, dashboard>>
    /\ UNCHANGED <<dbVars, handlerVars, componentVars>>

\* setDateRange(range)
SetDateRange(range) ==
    /\ dateRange' = range
    /\ AnalyticsEffect(localOrders, localCustomers, range)
    /\ UNCHANGED <<localOrders, localCustomers, dashboard>>
    /\ UNCHANGED <<dbVars, handlerVars, componentVars>>

\* The orders state of useOrders becomes another list
OrdersChange ==
    \E list \in OrderLists(clock) : SetOrders(list)

\* The customers state of useCustomers becomes another list
CustomersChange ==
    \E custs \in CustomerLists : SetCustomers(custs)

\* The user picks a window
ChangeDateRange ==
    \E range \in DateRanges : SetDateRange(range)

-----------------------------------------------------------------------------
\* Statements on public.orders that address rows by order_id

\* The ids of a set of rows, in ascending order
RECURSIVE InOrder(_)
InOrder(ids) ==
    IF ids = {} THEN <<>>
    ELSE LET m == CHOOSE x \in ids : \A y \in ids : x <= y
         IN  <<m>> \o InOrder(ids \ {m})

\* The rows WHERE order_id IN (selected), whoever owns them
RowsWhereOrderId(u, selected) ==
    {id \in DOMAIN orders :
        \E k \in DOMAIN selected : TextEq(orders[id].order_id, selected[k])}

\* The rows WHERE order_id IN (selected) AND user_id = u
RowsWhere(u, selected) ==
    {id \in DOMAIN orders :
        /\ orders[id].user_id = u
        /\ \E k \in DOMAIN selected : TextEq(orders[id].order_id, selected[k])}

\* public.customers after the triggers of an update or delete of each of rows
RECURSIVE CustomersAfterRows(_, _, _, _, _)
CustomersAfterRows(custs, op, rows, set, t) ==
    IF rows = <<>> THEN custs
    ELSE LET Old == orders[Head(rows)]
             New == IF op = "UPDATE"
                    THEN BeforeRow("UPDATE", OrderAssigned(Old, set), Old, t)
                    ELSE NullRow
         IN  CustomersAfterRows(
                 IF Fires("update_customer_stats", "AFTER", op)
                 THEN update_customer_stats(custs, op, New, Old) ELSE custs,
                 op, Tail(rows), set, t)

\* UPDATE orders SET set WHERE <row in rowIds>: every row goes through the
\* row triggers
OrdersUpdateRows(rowIds, set) ==
    /\ now < MaxTime
    /\ LET t    == now + 1
           rows == InOrder(rowIds)
           NewOf(id) == BeforeRow("UPDATE", OrderAssigned(orders[id], set), orders[id], t)
       IN  /\ \A id \in rowIds : /\ NewOf(id).status \in OrderStatuses
                                 /\ NewOf(id).priority \in OrderPriorities
           /\ orders' = [id \in DOMAIN orders |->
                            IF id \in rowIds THEN NewOf(id) ELSE orders[id]]
           /\ order_activities' =
                  order_activities \o
                  (IF Fires("log_order_activity", "AFTER", "UPDATE")
                   THEN [i \in DOMAIN rows |->
                            log_order_activity(NewOf(rows[i]), orders[rows[i]], "UPDATE", t)]
                   ELSE <<>>)
           /\ customers' = CustomersAfterRows(customers, "UPDATE", rows, set, t)
           /\ now' = t
           /\ lastStmt' = [op |-> "UPDATE_WHERE", id |-> rowIds, request |-> Null,
                           old |-> Some(orders), customers_before |-> customers,
                           fired |-> [i \in DOMAIN rows |-> TriggerFirings("UPDATE", 0)]]
           /\ UNCHANGED rollupAtInsert

\* DELETE FROM orders WHERE <row in rowIds>, with the cascade to order_activities
OrdersDeleteRows(rowIds) ==
    /\ now < MaxTime
    /\ LET rows == InOrder(rowIds)
       IN  /\ orders' = [id \in DOMAIN orders \ rowIds |-> orders[id]]
           /\ order_activities' =
                  SelectSeq(order_activities, LAMBDA a : a.order_id \notin rowIds)
           /\ customers' = CustomersAfterRows(customers, "DELETE", rows, NoCols, now + 1)
           /\ now' = now + 1
           /\ lastStmt' = [op |-> "DELETE_WHERE", id |-> rowIds, request |-> Null,
                           old |-> Some(orders), customers_before |-> customers,
                           fired |-> [i \in DOMAIN rows |-> TriggerFirings("DELETE", 0)]]
           /\ UNCHANGED rollupAtInsert

\* A statement the store answers with an error: nothing is written
OrdersStatementError(op) ==
    /\ now < MaxTime
    /\ now' = now + 1
    /\ lastStmt' = [op |-> op, id |-> 0, request |-> Null, old |-> Null,
                    customers_before |-> customers, fired |-> <<>>]
    /\ UNCHANGED <<orders, order_activities, customers, rollupAtInsert>>

-----------------------------------------------------------------------------
\* useOrders and the Index page

\* The answers of the store and of the send-notification function
Responses == { "ok", "error" }

\* The signed-in user (useAuth), or Null when nobody is signed in
SessionUser == [id |-> "u1", email |-> "u1@example.com"]

Sessions == { Null, Some(SessionUser) }

Toast(title, description) == [title |-> title, description |-> description]

\* String.prototype.padStart
RECURSIVE padStart(_, _, _)
padStart(s, targetLength, padString) ==
    IF Len(s) >= targetLength THEN s
    ELSE padStart(padString \o s, targetLength, padString)

\* createOrder: `ORD-${String(orderCount + 1).padStart(3, '0')}`
GeneratedOrderId(orderCount) == "ORD-" \o padStart(ToString(orderCount + 1), 3, "0")

\* createOrder: the columns it inserts (no invoice file is attached)
CreateOrderCols(user, orderRequest) ==
    [ order_id      |-> GeneratedOrderId(Len(localOrders)),
      customer_name |-> orderRequest.customerName,
      order_amount  |-> orderRequest.orderAmount ]

\* The Order value createOrder builds from the returned row (data); order_date
\* is filled by the store and the row's created_at stands for it; totalAmount
\* is not mapped
OrderOfRow(data) ==
    [ orderId |-> data.order_id, customerName |-> data.customer_name,
      orderAmount |-> data.order_amount, totalAmount |-> Null,
      orderDate |-> data.created_at, status |-> data.status ]

\* createOrder: what it returns and the toast it shows. response is the
\* store's answer to the insert
createOrderReturn(user, orderRequest, response) ==
    IF user = Null
    THEN [ newOrder |-> Null,
           toast |-> Toast("Error", "You must be logged in to create orders") ]
    ELSE IF response = "error"
    THEN [ newOrder |-> Null, toast |-> Toast("Error", "Failed to create order") ]
    ELSE LET t    == now + 1
             data == BeforeRow("INSERT",
                               OrderCandidate(user[1].id,
                                              CreateOrderCols(user, orderRequest), t),
                               NullRow, t)
         IN  [ newOrder |-> Some(OrderOfRow(data)),
               toast |-> Toast("Success", "Order created successfully") ]

\* setOrders as the hook calls it: the views that depend on orders render again
SetLocalOrders(list) ==
    /\ localOrders' = list
    /\ dashboard' = DashboardAnalytics(list)
    /\ AnalyticsEffect(list, localCustomers, dateRange)
    /\ UNCHANGED <<localCustomers, dateRange>>

\* createOrder: what it writes to the store and to the orders state
createOrder(user, orderRequest, response) ==
    IF user = Null
    THEN UNCHANGED <<dbVars, viewVars>>
    ELSE IF response = "error"
    THEN OrdersStatementError("INSERT_ERROR") /\ UNCHANGED viewVars
    ELSE /\ OrderInsertStmt(user[1].id, CreateOrderCols(user, orderRequest),
                            Some(orderRequest))
         /\ SetLocalOrders(<< createOrderReturn(user, orderRequest, response).newOrder[1] >>
                           \o localOrders)

\* sendEmailNotification that shows nothing when the function answers with an error
sendEmailNotificationSilent(order, userEmail, response) ==
    [ calls  |-> << [fn |-> "send-notification",
                     body |-> [to |-> userEmail, customerName |-> order.customerName,
                               orderId |-> order.orderId,
                               orderAmount |-> order.orderAmount]] >>,
      toasts |-> IF response = "error" THEN <<>>
                 ELSE << Toast("Success", "Order created and notification sent!") >> ]

\* Index.sendEmailNotification: the call to supabase.functions.invoke and the
\* toast that follows its answer
sendEmailNotification(order, userEmail, response) ==
    [ calls  |-> << [fn |-> "send-notification",
                     body |-> [to |-> userEmail, customerName |-> order.customerName,
                               orderId |-> order.orderId,
                               orderAmount |-> order.orderAmount]] >>,
      toasts |-> IF response = "error"
                 THEN << Toast("Warning", "Order created but email notification failed") >>
                 ELSE << Toast("Success", "Order created and notification sent!") >> ]

\* Index.handleOrderSubmit
handleOrderSubmit(user, orderRequest, insertResponse, notifyResponse) ==
    LET ret  == createOrderReturn(user, orderRequest, insertResponse)
        sent == IF ret.newOrder # Null /\ user[1].email # NullText
                THEN sendEmailNotification(ret.newOrder[1], user[1].email, notifyResponse)
                ELSE [calls |-> <<>>, toasts |-> <<>>]
    IN  /\ createOrder(user, orderRequest, insertResponse)
        /\ toasts' = << ret.toast >> \o sent.toasts
        /\ calls' = sent.calls
        /\ lastCall' = [ handler |-> "handleOrderSubmit", orders_before |-> orders,
                         localOrders_before |-> localOrders,
                         notification |-> IF sent.calls = <<>> THEN "none"
                                          ELSE notifyResponse ]
        /\ UNCHANGED componentVars

\* useOrders.deleteOrder
deleteOrder(user, orderId, response) ==
    /\ IF user = Null
       THEN UNCHANGED <<dbVars, viewVars>> /\ toasts' = <<>>
       ELSE IF response = "error"
       THEN /\ OrdersStatementError("DELETE_ERROR")
            /\ UNCHANGED viewVars
            /\ toasts' = << Toast("Error", "Failed to delete order") >>
       ELSE /\ OrdersDeleteRows(RowsWhere(user[1].id, << orderId >>))
            /\ SetLocalOrders(SelectSeq(localOrders, LAMBDA order : order.orderId # orderId))
            /\ toasts' = << Toast("Success", "Order deleted successfully") >>
    /\ calls' = <<>>
    /\ lastCall' = [ handler |-> "deleteOrder", orders_before |-> orders,
                     localOrders_before |-> localOrders, orderId |-> orderId ]
    /\ UNCHANGED componentVars

-----------------------------------------------------------------------------
\* Text written to files. A text is a sequence of pieces; a comma, a double
\* quote and a line feed are always pieces of their own, so that the other
\* pieces hold none of them.

Comma == ","
Quote == "\""
LineFeed == "\n"

\* Array.prototype.join
RECURSIVE Join(_, _)
Join(texts, separator) ==
    IF texts = <<>> THEN <<>>
    ELSE IF Len(texts) = 1 THEN texts[1]
    ELSE texts[1] \o << separator >> \o Join(Tail(texts), separator)

\* Two decimal digits
TwoDigits(n) == IF n < 10 THEN "0" \o ToString(n) ELSE ToString(n)

\* String(amount) of a number held in hundredths: the shortest decimal form
NumberText(amount) ==
    LET whole == amount \div 100
        frac  == amount % 100
    IN  IF frac = 0 THEN << ToString(whole) >>
        ELSE IF frac % 10 = 0 THEN << ToString(whole) \o "." \o ToString(frac \div 10) >>
        ELSE << ToString(whole) \o "." \o TwoDigits(frac) >>

\* amount.toFixed(2)
ToFixed2(amount) == << ToString(amount \div 100) \o "." \o TwoDigits(amount % 100) >>

\* The orderDate string of an Order, as the store returns it (its date part)
IsoDateText(date) ==
    LET c == CalendarDate(date)
    IN  << ToString(c.year) \o "-" \o TwoDigits(c.month) \o "-" \o TwoDigits(c.day) >>

\* new Date(orderDate).toLocaleDateString() in the en-US locale
LocaleDateText(date) ==
    LET c == CalendarDate(date)
    IN  << ToString(c.month) \o "/" \o ToString(c.day) \o "/" \o ToString(c.year) >>

\* value || '' for an optional string
TextOrEmpty(value) == IF value = Null THEN <<>> ELSE value

\* BulkOrderActions.exportOrders: the content of the file, for a selection
\* that is not empty
exportOrders(selectedOrdersData) ==
    LET header == << <<"Order ID">>, <<"Customer">>, <<"Email">>, <<"Amount">>, <<"Total">>,
                     <<"Status">>, <<"Priority">>, <<"Date">>, <<"Due Date">>, <<"Notes">> >>
        row(order) ==
            << << order.orderId >>,
               order.customerName,
               TextOrEmpty(order.customerEmail),
               NumberText(order.orderAmount),
               NumberText(IF order.totalAmount = Null \/ order.totalAmount = Some(0)
                          THEN order.orderAmount ELSE order.totalAmount[1]),
               << order.status >>,
               << IF order.priority = NullText THEN "medium" ELSE order.priority >>,
               IsoDateText(order.orderDate),
               IF order.dueDate = Null THEN <<>> ELSE IsoDateText(order.dueDate[1]),
               TextOrEmpty(order.notes) >>
    IN  Join(<< Join(header, Comma) >> \o
             [i \in DOMAIN selectedOrdersData |-> Join(row(selectedOrdersData[i]), Comma)],
             LineFeed)

\* OrderTable.exportToCSV: the content of the file
exportToCSV(filteredAndSortedOrders) ==
    \* (the rupee sign of the third header is written INR)
    LET headers == << <<"Order ID">>, <<"Customer Name">>, <<"Amount (INR)">>, <<"Date">>,
                      <<"Status">> >>
        row(order) ==
            << << order.orderId >>,
               << Quote >> \o order.customerName \o << Quote >>,
               ToFixed2(order.orderAmount),
               LocaleDateText(order.orderDate),
               << order.status >> >>
    IN  Join(<< Join(headers, Comma) >> \o
             [i \in DOMAIN filteredAndSortedOrders |->
                 Join(row(filteredAndSortedOrders[i]), Comma)],
             LineFeed)

\* The download a file export starts (link.click())
Download(content, columns, rows) ==
    [fn |-> "download", content |-> content, columns |-> columns, rows |-> rows]

\* A reader of comma-separated files: a piece is inside a quoted field when
\* an odd number of double quotes precedes it
Quoted(text, i) == Cardinality({j \in 1..(i - 1) : text[j] = Quote}) % 2 = 1

\* The line feeds that end a record
RecordEnds(text) == InOrder({i \in DOMAIN text : text[i] = LineFeed /\ ~Quoted(text, i)})

\* The number of fields of each record of a file
FieldCounts(text) ==
    LET ends  == RecordEnds(text)
        from(k) == IF k = 1 THEN 0 ELSE ends[k - 1]
        to(k)   == IF k > Len(ends) THEN Len(text) + 1 ELSE ends[k]
    IN  [k \in 1..(Len(ends) + 1) |->
            1 + Cardinality({i \in DOMAIN text :
                                /\ from(k) < i /\ i < to(k)
                                /\ text[i] = Comma /\ ~Quoted(text, i)})]

-----------------------------------------------------------------------------
\* BulkOrderActions

\* onOrdersUpdate(); onSelectionChange([])
AfterBulkAction == << [fn |-> "onOrdersUpdate"], [fn |-> "onSelectionChange", arg |-> <<>>] >>

\* updateOrdersStatus, updateOrdersPriority and archiveOrders: one UPDATE of
\* the rows .in('order_id', selectedOrders).eq('user_id', user?.id)
updateOrders(user, selectedOrders, set, failed, done, response) ==
    IF user = Null \/ response = "error"
    THEN /\ OrdersStatementError("UPDATE_ERROR")
         /\ toasts' = << Toast("Error", failed) >>
    ELSE /\ OrdersUpdateRows(RowsWhere(user[1].id, selectedOrders), set)
         /\ toasts' = << Toast("Success", done) >>

\* deleteOrders
deleteOrders(user, selectedOrders, response) ==
    IF user = Null \/ response = "error"
    THEN /\ OrdersStatementError("DELETE_ERROR")
         /\ toasts' = << Toast("Error", "Failed to delete orders") >>
    ELSE /\ OrdersDeleteRows(RowsWhere(user[1].id, selectedOrders))
         /\ toasts' = << Toast("Success",
                               "Deleted " \o ToString(Len(selectedOrders)) \o " orders") >>

\* BulkOrderActions.executeBulkAction. ordersProp and selectedOrders are the
\* props, selectedAction, newStatus and newPriority the component's state
executeBulkAction(user, ordersProp, selectedOrders, selectedAction, newStatus, newPriority, response) ==
    LET n == ToString(Len(selectedOrders))
        selectedOrdersData ==
            SelectSeq(ordersProp,
                      LAMBDA order : \E k \in DOMAIN selectedOrders :
                                         selectedOrders[k] = order.orderId)
    IN  /\ lastCall' = [ handler |-> "executeBulkAction", orders_before |-> orders,
                         now_before |-> now, user |-> user, selectedOrders |-> selectedOrders,
                         selectedAction |-> selectedAction,
                         newStatus |-> newStatus, newPriority |-> newPriority ]
        /\ UNCHANGED <<viewVars, componentVars>>
        /\ IF selectedAction = "" \/ Len(selectedOrders) = 0
           THEN UNCHANGED dbVars /\ toasts' = <<>> /\ calls' = <<>>
           ELSE CASE selectedAction = "update_status" ->
                        /\ updateOrders(user, selectedOrders, [status |-> newStatus],
                                        "Failed to update order status",
                                        "Updated " \o n \o " orders to " \o newStatus,
                                        response)
                        /\ calls' = AfterBulkAction
                  [] selectedAction = "update_priority" ->
                        /\ updateOrders(user, selectedOrders, [priority |-> newPriority],
                                        "Failed to update order priority",
                                        "Updated " \o n \o " orders to " \o newPriority
                                            \o " priority",
                                        response)
                        /\ calls' = AfterBulkAction
                  [] selectedAction = "archive" ->
                        /\ updateOrders(user, selectedOrders, [status |-> "completed"],
                                        "Failed to archive orders",
                                        "Archived " \o n \o " orders", response)
                        /\ calls' = AfterBulkAction
                  [] selectedAction = "delete" ->
                        /\ deleteOrders(user, selectedOrders, response)
                        /\ calls' = AfterBulkAction
                  [] selectedAction = "export" ->
                        /\ UNCHANGED dbVars
                        /\ IF selectedOrdersData = <<>>
                           THEN \* Object.keys(csvData[0]) throws; the catch logs it
                                toasts' = <<>> /\ calls' = <<>>
                           ELSE /\ toasts' = << Toast("Success",
                                                      "Exported " \o n \o " orders to CSV") >>
                                /\ calls' = << Download(exportOrders(selectedOrdersData),
                                                        10, Len(selectedOrdersData)) >>
                                            \o AfterBulkAction
                  [] selectedAction = "send_notifications" ->
                        /\ UNCHANGED dbVars
                        /\ toasts' = << Toast("Success",
                                              "Sent notifications for " \o n \o " orders") >>
                        /\ calls' = AfterBulkAction

-----------------------------------------------------------------------------
\* ExportMenu

availableColumns ==
    << "orderId", "customerName", "customerEmail", "customerPhone", "orderAmount",
       "taxAmount", "totalAmount", "status", "priority", "currency", "orderDate",
       "dueDate", "completedAt", "notes", "tags" >>

\* useState<string[]>([...]) of selectedColumns
InitialColumns ==
    << "orderId", "customerName", "orderAmount", "totalAmount", "status", "orderDate" >>

\* Handlers of ExportMenu leave everything but its own state, the toasts and the
\* calls as they are
ExportMenuHandler(name) ==
    /\ lastCall' = [handler |-> name, selectedColumns |-> selectedColumns]
    /\ UNCHANGED <<dbVars, viewVars, inputs, formData>>

\* ExportMenu.handleColumnToggle
handleColumnToggle(columnKey) ==
    /\ selectedColumns' =
           IF \E i \in DOMAIN selectedColumns : selectedColumns[i] = columnKey
           THEN SelectSeq(selectedColumns, LAMBDA col : col # columnKey)
           ELSE Append(selectedColumns, columnKey)
    /\ ExportMenuHandler("handleColumnToggle")
    /\ toasts' = <<>> /\ calls' = <<>>

\* ExportMenu.selectAllColumns
selectAllColumns ==
    /\ selectedColumns' = availableColumns
    /\ ExportMenuHandler("selectAllColumns")
    /\ toasts' = <<>> /\ calls' = <<>>

\* ExportMenu.deselectAllColumns
deselectAllColumns ==
    /\ selectedColumns' = <<>>
    /\ ExportMenuHandler("deselectAllColumns")
    /\ toasts' = <<>> /\ calls' = <<>>

\* selectedFormat.toUpperCase()
toUpperCase(s) == [csv |-> "CSV", excel |-> "EXCEL", pdf |-> "PDF"][s]

\* ExportMenu.handleExport
handleExport(selectedFormat) ==
    /\ ExportMenuHandler("handleExport")
    /\ UNCHANGED selectedColumns
    /\ IF Len(selectedColumns) = 0
       THEN /\ toasts' = << Toast("No Columns Selected",
                                  "Please select at least one column to export") >>
            /\ calls' = <<>>
       ELSE /\ calls' = << [fn |-> "onExport", format |-> selectedFormat,
                            columns |-> selectedColumns] >>
            /\ toasts' = << Toast("Export Started",
                                  "Generating " \o toUpperCase(selectedFormat) \o " file with "
                                      \o ToString(Len(selectedColumns)) \o " columns") >>

\* OrderTable's Export button: exportToCSV() downloads the file and shows a toast
exportTable(filteredAndSortedOrders) ==
    /\ calls' = << Download(exportToCSV(filteredAndSortedOrders), 5,
                            Len(filteredAndSortedOrders)) >>
    /\ toasts' = << Toast("Export Successful",
                          "Exported " \o ToString(Len(filteredAndSortedOrders))
                              \o " orders to CSV") >>
    /\ lastCall' = [handler |-> "exportToCSV"]
    /\ UNCHANGED <<dbVars, viewVars, componentVars>>

\* Inputs of the bulk actions and of the exports

\* selectedOrders
Selections == { <<>>, << GeneratedOrderId(0) >>, << GeneratedOrderId(0), GeneratedOrderId(1) >> }

\* selectedAction, newStatus and newPriority as the dialog leaves them
BulkChoices ==
    { [selectedAction |-> "", newStatus |-> "pending", newPriority |-> "medium"],
      [selectedAction |-> "update_status", newStatus |-> "shipped", newPriority |-> "medium"],
      [selectedAction |-> "update_priority", newStatus |-> "pending", newPriority |-> "urgent"],
      [selectedAction |-> "archive", newStatus |-> "pending", newPriority |-> "medium"],
      [selectedAction |-> "delete", newStatus |-> "pending", newPriority |-> "medium"],
      [selectedAction |-> "export", newStatus |-> "pending", newPriority |-> "medium"],
      [selectedAction |-> "send_notifications", newStatus |-> "pending",
       newPriority |-> "medium"] }

\* The bulk actions tried against the store: the writes of the first user on
\* one and on two selected order ids, the writes of the second user, calls with
\* an empty selection and with no action chosen, the actions that write
\* nothing, writes the store answers with an error and a write with nobody
\* signed in
BulkInputs ==
    LET Session(u) == Some([id |-> u, email |-> u \o "@example.com"])
        Choice(a) == CHOOSE c \in BulkChoices : c.selectedAction = a
        One == << GeneratedOrderId(0) >>
        Input(user, selected, action, response) ==
            [user |-> user, selected |-> selected, choice |-> Choice(action),
             response |-> response]
    IN  { Input(Session("u1"), s, a, "ok") :
              s \in Selections \ { <<>> },
              a \in {"update_status", "update_priority", "archive", "delete"} }
        \cup { Input(Session("u2"), One, a, "ok") :
                  a \in {"update_status", "update_priority", "delete"} }
        \cup { Input(Session("u1"), <<>>, a, "ok") : a \in {"update_status", "delete"} }
        \cup { Input(Session("u1"), One, a, "ok") : a \in {"", "export", "send_notifications"} }
        \cup { Input(Session("u1"), One, a, "error") : a \in {"update_status", "delete"} }
        \cup { Input(Null, One, "delete", "ok") }

\* An Order as the tables and the exports read it; its texts are sequences of pieces
TextOrder(orderId, customerName, orderAmount, notes) ==
    [ orderId |-> orderId, customerName |-> customerName, customerEmail |-> Null,
      orderAmount |-> orderAmount, totalAmount |-> Null, status |-> "pending",
      priority |-> NullText, orderDate |-> ClockStart, dueDate |-> Null, notes |-> notes ]

\* The orders prop where the bulk actions are tried against the store
BulkOrdersProp ==
    << TextOrder(GeneratedOrderId(0), << "a" >>, 10000, Null),
       TextOrder(GeneratedOrderId(1), << "b" >>, 2550, Null) >>

\* The order lists exported: plain names; a name with a comma; a name with a
\* double quote; notes of two lines
ExportOrderLists ==
    { <<>>,
      BulkOrdersProp,
      << TextOrder(GeneratedOrderId(0), << "Smith", Comma, " John" >>, 10000, Null) >>,
      << TextOrder(GeneratedOrderId(0), << "6", Quote, " bolts" >>, 105, << "rush" >>) >>,
      << TextOrder(GeneratedOrderId(0), << "a" >>, 10000, << "line 1", LineFeed, "line 2" >>),
         TextOrder(GeneratedOrderId(1), << "b" >>, 99, Null) >> }

\* The columns whose checkbox is clicked
ToggledColumns == { "orderId", "customerName", "notes" }

ExportFormats == { "csv", "excel", "pdf" }

-----------------------------------------------------------------------------
\* The create forms. The text of an input is a sequence of characters.

Digit == ("0" :> 0) @@ ("1" :> 1) @@ ("2" :> 2) @@ ("3" :> 3) @@ ("4" :> 4) @@
         ("5" :> 5) @@ ("6" :> 6) @@ ("7" :> 7) @@ ("8" :> 8) @@ ("9" :> 9)

IsDigit(ch) == ch \in DOMAIN Digit

\* The longest run of digits a text starts with
LeadingDigits(s) ==
    LET others == {i \in DOMAIN s : ~IsDigit(s[i])}
    IN  IF others = {} THEN s
        ELSE SubSeq(s, 1, (CHOOSE i \in others : \A j \in others : i <= j) - 1)

\* The number a run of digits denotes
RECURSIVE DecimalValue(_)
DecimalValue(digits) ==
    IF digits = <<>> THEN 0
    ELSE DecimalValue(SubSeq(digits, 1, Len(digits) - 1)) * 10 + Digit[digits[Len(digits)]]

RECURSIVE Pow10(_)
Pow10(n) == IF n = 0 THEN 1 ELSE 10 * Pow10(n - 1)

\* String.prototype.trimStart / trimEnd / trim
RECURSIVE trimStart(_)
trimStart(s) == IF s # <<>> /\ s[1] = " " THEN trimStart(Tail(s)) ELSE s

RECURSIVE trimEnd(_)
trimEnd(s) ==
    IF s # <<>> /\ s[Len(s)] = " " THEN trimEnd(SubSeq(s, 1, Len(s) - 1)) ELSE s

trim(s) == trimEnd(trimStart(s))

\* String.prototype.includes for one character
includes(s, ch) == \E i \in DOMAIN s : s[i] = ch

\* parseFloat: leading white space is skipped, then the longest prefix that is
\* a decimal literal (sign, digits, a point, digits) is read; NaN if there is none
parseFloat(s) ==
    LET t        == trimStart(s)
        signed   == t # <<>> /\ t[1] \in {"-", "+"}
        u        == IF signed THEN Tail(t) ELSE t
        int      == LeadingDigits(u)
        rest     == SubSeq(u, Len(int) + 1, Len(u))
        fraction == IF rest # <<>> /\ rest[1] = "." THEN LeadingDigits(Tail(rest)) ELSE <<>>
        scale    == Pow10(Len(fraction))
        value    == DecimalValue(int) * scale + DecimalValue(fraction)
    IN  IF int = <<>> /\ fraction = <<>> THEN NaN
        ELSE Fraction(IF signed /\ t[1] = "-" THEN 0 - value ELSE value, scale)

\* A valid floating-point number of HTML: an optional "-", digits with an
\* optional point and digits, or a point and digits
IsValidFloatingPointNumber(s) ==
    LET u        == IF s # <<>> /\ s[1] = "-" THEN Tail(s) ELSE s
        int      == LeadingDigits(u)
        rest     == SubSeq(u, Len(int) + 1, Len(u))
    IN  \/ int # <<>> /\ rest = <<>>
        \/ /\ rest # <<>> /\ rest[1] = "."
           /\ Tail(rest) # <<>>
           /\ LeadingDigits(Tail(rest)) = Tail(rest)

\* e.target.value of an <input type="text">: the text as typed
TextInputValue(typed) == typed

\* An amount input that hands on whatever was typed
NumberInputValueAsTyped(typed) == typed

\* e.target.value of an <input type="number">: the text if it is a valid
\* floating-point number, the empty string otherwise
NumberInputValue(typed) == IF IsValidFloatingPointNumber(typed) THEN typed ELSE <<>>

\* e.target.value of an <input type="email">: leading and trailing white space
\* is stripped
EmailInputValue(typed) == trim(typed)

\* x <= 0 for the result of parseFloat
NotAboveZero(x) == x.kind = "finite" /\ x.n <= 0

\* The validation toasts of the create forms
NameRequired == Toast("Validation Error", "Customer name is required")

AmountAboveZero == Toast("Validation Error", "Order amount must be greater than 0")

EmailInvalid == Toast("Validation Error", "Please enter a valid email address")

\* The request a create form hands to onSubmit, and the toast that follows
SubmitForm(data) ==
    [ calls  |-> << [fn |-> "onSubmit",
                     arg |-> [data EXCEPT
                                 !.orderAmount = JsOr(parseFloat(data.orderAmount), Zero)]] >>,
      toasts |-> << Toast("Order Created",
                          << "Order for ", data.customerName,
                             " has been created successfully" >>) >> ]

\* EnhancedCreateOrderForm.handleSubmit: the calls it makes and the toasts it shows
EnhancedCreateOrderForm_handleSubmit(data) ==
    IF trim(data.customerName) = <<>>
    THEN [calls |-> <<>>, toasts |-> << NameRequired >>]
    ELSE IF data.orderAmount = <<>> \/ NotAboveZero(parseFloat(data.orderAmount))
    THEN [calls |-> <<>>, toasts |-> << AmountAboveZero >>]
    ELSE IF data.customerEmail # <<>> /\ ~includes(data.customerEmail, "@")
    THEN [calls |-> <<>>, toasts |-> << EmailInvalid >>]
    ELSE SubmitForm(data)

\* CreateOrderForm.handleSubmit: the form has no email field
CreateOrderForm_handleSubmit(data) ==
    IF trim(data.customerName) = <<>>
    THEN [calls |-> <<>>, toasts |-> << NameRequired >>]
    ELSE IF data.orderAmount = <<>> \/ NotAboveZero(parseFloat(data.orderAmount))
    THEN [calls |-> <<>>, toasts |-> << AmountAboveZero >>]
    ELSE SubmitForm(data)

\* The Create Order button of a form
submit(form, result) ==
    /\ lastCall.handler = "none"
    /\ toasts' = result.toasts
    /\ calls' = result.calls
    /\ lastCall' = [handler |-> "handleSubmit", form |-> form]
    /\ UNCHANGED <<dbVars, viewVars, componentVars>>

\* The texts of at most MaxText characters
Texts(alphabet) == UNION { [1..n -> alphabet] : n \in 0..MaxText }

\* What is typed into the name, amount and email inputs
NameTexts == Texts({" ", "a"})

AmountTexts == Texts({"0", "1", "-", ".", "a"})

EmailTexts == Texts({"a", "@", " "})

\* useState of formData: every field empty
EmptyForm == [customerName |-> <<>>, orderAmount |-> <<>>, customerEmail |-> <<>>]

-----------------------------------------------------------------------------
\* Actions

\* Everything but the create form as it is after construction
InitButForm ==
    /\ orders = NoCols
    /\ customers = NoCols
    /\ order_activities = <<>>
    /\ now = 0
    /\ lastStmt = [op |-> "NONE", id |-> 0, request |-> Null, old |-> Null,
                   customers_before |-> NoCols, fired |-> <<>>]
    /\ rollupAtInsert = NoCols
    /\ localOrders = <<>>
    /\ localCustomers = <<>>
    /\ dateRange = "30d"
    /\ clock = ClockStart
    /\ analytics = Null
    /\ dashboard = DashboardAnalytics(<<>>)
    /\ toasts = <<>>
    /\ calls = <<>>
    /\ lastCall = [handler |-> "none"]
    /\ selectedColumns = InitialColumns

Init ==
    /\ InitButForm
    /\ inputs = EmptyForm
    /\ formData = EmptyForm

\* A create form that has been filled in: onChange has stored the value of each
\* input in formData
InitForm ==
    /\ InitButForm
    /\ \E name \in NameTexts, amount \in AmountTexts, email \in EmailTexts :
           /\ inputs = [customerName |-> name, orderAmount |-> amount,
                        customerEmail |-> email]
           /\ formData = [customerName |-> TextInputValue(name),
                          orderAmount |-> NumberInputValue(amount),
                          customerEmail |-> EmailInputValue(email)]

\* A client inserts an order row directly
InsertOrder ==
    \E m \in MoneyCols, l \in LifecycleCols(now + 1), ct \in ClientTotalCols :
        OrderInsert("u1", [customer_name |-> "a"] @@ m @@ l @@ ct, Null)

\* useOrders.createOrder: only order_id, user_id, customer_name, order_amount
\* and invoice_file_uri are sent
CreateOrder ==
    \E req \in CreateOrderRequests :
        OrderInsert("u1", [customer_name |-> req.customerName,
                           order_amount  |-> req.orderAmount], Some(req))

UpdateOrder ==
    \E id \in DOMAIN orders, set \in OrderSets : OrderUpdate(orders[id].user_id, id, set)

\* useOrders.deleteOrder
DeleteOrder ==
    \E id \in DOMAIN orders : OrderDelete(orders[id].user_id, id)

RollupInsertOrder ==
    \E cols \in RollupInsertCols : OrderInsert("u1", cols, Null)

RollupUpdateOrder ==
    \E id \in DOMAIN orders, set \in RollupOrderSets :
        OrderUpdate(orders[id].user_id, id, set)

CreateCustomer ==
    \E r \in CustomerRequests : CustomerInsert(r[1], r[2])

UpdateCustomer ==
    \E id \in DOMAIN customers, up \in CustomerUpdates :
        CustomerUpdate(customers[id].user_id, id, up)

DeleteCustomer ==
    \E id \in DOMAIN customers : CustomerDelete(customers[id].user_id, id)

InsertOrderAuditError ==
    \E cols \in RollupInsertCols : OrderInsertAuditError("u1", cols)

UpdateOrderAuditError ==
    \E id \in DOMAIN orders, set \in RollupOrderSets :
        OrderUpdateAuditError(orders[id].user_id, id, set)

InsertOrder20250921 ==
    \E cols \in RollupInsertCols : OrderInsert20250921("u1", cols)

UpdateOrder20250921 ==
    \E id \in DOMAIN orders, set \in RollupOrderSets :
        OrderUpdate20250921(orders[id].user_id, id, set)

\* Order writes with their derived columns
Next ==
    \/ InsertOrder
    \/ CreateOrder
    \/ UpdateOrder
    \/ DeleteOrder

Spec == Init /\ [][Next]_vars

\* Order writes against a changing customers table
RollupNext ==
    \/ RollupInsertOrder
    \/ RollupUpdateOrder
    \/ DeleteOrder
    \/ CreateCustomer
    \/ UpdateCustomer
    \/ DeleteCustomer

SpecRollup == Init /\ [][RollupNext]_vars

\* Order writes whose activity row may be refused
AuditNext ==
    \/ RollupInsertOrder
    \/ RollupUpdateOrder
    \/ DeleteOrder
    \/ InsertOrderAuditError
    \/ UpdateOrderAuditError

SpecAudit == Init /\ [][AuditNext]_vars

\* The analytics views over changing order lists, customer lists and windows
AnalyticsNext ==
    \/ OrdersChange
    \/ CustomersChange
    \/ ChangeDateRange

SpecAnalytics == Init /\ [][AnalyticsNext]_vars

\* Order writes on rows stored earlier, with the triggers of migration
\* 20250921065616 installed
Next20250921 ==
    \/ RollupInsertOrder
    \/ RollupUpdateOrder
    \/ DeleteOrder
    \/ InsertOrder20250921
    \/ UpdateOrder20250921

Spec20250921 == Init /\ [][Next20250921]_vars

\* The create form is submitted on the Index page
HandleOrderSubmit ==
    \E user \in Sessions, req \in CreateOrderRequests,
       insertResponse \in Responses, notifyResponse \in Responses :
        handleOrderSubmit(user, req, insertResponse, notifyResponse)

\* The delete button of an order of the list
DeleteOrderCall ==
    \E user \in Sessions, i \in DOMAIN localOrders, response \in Responses :
        deleteOrder(user, localOrders[i].orderId, response)

\* One signed-in user creating and deleting orders through useOrders
ClientNext ==
    \/ HandleOrderSubmit
    \/ DeleteOrderCall

SpecClient == Init /\ [][ClientNext]_vars

\* Another session of user u creates an order: the row carries the order_id
\* that session generated
InsertOrderWithId ==
    \E u \in Users, orderCount \in 0..1 :
        OrderInsert(u, [order_id |-> GeneratedOrderId(orderCount),
                        customer_name |-> "a", order_amount |-> 100], Null)

\* The Execute button of the bulk actions dialog
ExecuteBulkAction ==
    \E input \in BulkInputs :
        executeBulkAction(input.user, BulkOrdersProp, input.selected,
                          input.choice.selectedAction, input.choice.newStatus,
                          input.choice.newPriority, input.response)

\* Orders of two users under bulk actions
BulkNext ==
    \/ InsertOrderWithId
    \/ ExecuteBulkAction

SpecBulk == Init /\ [][BulkNext]_vars

HandleColumnToggle ==
    \E columnKey \in ToggledColumns : handleColumnToggle(columnKey)

SelectAllColumns == selectAllColumns

DeselectAllColumns == deselectAllColumns

HandleExport ==
    \E selectedFormat \in ExportFormats : handleExport(selectedFormat)

\* The bulk action "export" on a selection
ExportSelected ==
    \E list \in ExportOrderLists, selected \in Selections :
        executeBulkAction(Some(SessionUser), list, selected, "export", "pending",
                          "medium", "ok")

\* The Export button of OrderTable
ExportTable ==
    \E list \in ExportOrderLists : exportTable(list)

\* The exports
ExportNext ==
    \/ HandleColumnToggle
    \/ SelectAllColumns
    \/ DeselectAllColumns
    \/ HandleExport
    \/ ExportSelected
    \/ ExportTable

SpecExport == Init /\ [][ExportNext]_vars

\* EnhancedCreateOrderForm is submitted
SubmitEnhancedCreateOrderForm ==
    submit("EnhancedCreateOrderForm", EnhancedCreateOrderForm_handleSubmit(formData))

\* CreateOrderForm is submitted; it has no email input
SubmitCreateOrderForm ==
    /\ inputs.customerEmail = <<>>
    /\ submit("CreateOrderForm", CreateOrderForm_handleSubmit(formData))

FormNext ==
    \/ SubmitEnhancedCreateOrderForm
    \/ SubmitCreateOrderForm

\* The create forms, filled in and submitted
SpecForm == InitForm /\ [][FormNext]_vars

-----------------------------------------------------------------------------
\* Properties of the derived columns (checked under Spec)

\* The latest statement was an UPDATE of an order row
UpdatedOrder == lastStmt.op = "UPDATE" /\ lastStmt.id \in DOMAIN orders

\* order_amount + order_amount*tax_rate/100 - discount_amount of a stored row,
\* NULL read as 0, in 1/RateScale minor units
ExactTotal(row) ==
    row.order_amount * RateScale
        + row.order_amount * (IF row.tax_rate = Null THEN 0 ELSE row.tax_rate[1])
        - (IF row.discount_amount = Null THEN 0 ELSE row.discount_amount[1]) * RateScale

\* C1 as stated: every stored order row has total_amount equal to
\* order_amount + order_amount*tax_rate/100 - discount_amount (NULL read as 0).
C1_TotalIsExactFormula ==
    \A id \in DOMAIN orders :
        /\ orders[id].total_amount # Null
        /\ orders[id].total_amount[1] * RateScale = ExactTotal(orders[id])

\* C1 amended: every stored order row has total_amount equal to
\* order_amount + order_amount*tax_rate/100 - discount_amount (NULL read as 0)
\* rounded to the nearest 0.01, whatever total_amount the client sent.
C1_TotalIsRoundedFormula ==
    \A id \in DOMAIN orders :
        /\ orders[id].total_amount # Null
        /\ LET diff == orders[id].total_amount[1] * RateScale - ExactTotal(orders[id])
           IN  2 * diff <= RateScale /\ 2 * (0 - diff) <= RateScale

\* C1 witness: an update has just been stored on a row whose exact total is not
\* a whole number of minor units
C1_Witness ==
    /\ UpdatedOrder
    /\ orders[lastStmt.id].total_amount # Null
    /\ orders[lastStmt.id].total_amount[1] * RateScale # ExactTotal(orders[lastStmt.id])

\* C2 as stated: the row a createOrder call stores has total_amount equal to the
\* total computed from the request's orderAmount, taxRate and discountAmount
\* (the form's calculatedTotal).
C2_CreateStoresRequestTotal ==
    (lastStmt.op = "INSERT" /\ lastStmt.request # Null /\ lastStmt.id \in DOMAIN orders) =>
        /\ orders[lastStmt.id].total_amount # Null
        /\ orders[lastStmt.id].total_amount[1] * RateScale = calculatedTotal(lastStmt.request[1])

\* C3: an update that takes status from a non-completed value to 'completed'
\* sets completed_at to the time of that write, and an update of a row that is
\* and stays 'completed' leaves completed_at as it was.
C3_CompletedAtOnTransition ==
    UpdatedOrder =>
        LET Old == lastStmt.old[1]
            New == orders[lastStmt.id]
        IN  /\ (Old.status # "completed" /\ New.status = "completed")
                   => New.completed_at = Some(now)
            /\ (Old.status = "completed" /\ New.status = "completed")
                   => New.completed_at = Old.completed_at

\* C3 witness: a completed row stamped at an earlier write has just been
\* updated and is still completed
C3_Witness ==
    /\ UpdatedOrder
    /\ lastStmt.old[1].status = "completed"
    /\ orders[lastStmt.id].status = "completed"
    /\ orders[lastStmt.id].completed_at # Null
    /\ orders[lastStmt.id].completed_at[1] < now

\* C4 as stated: once completed_at has been assigned, no later write changes it
\* (it is assigned once, at the first transition into 'completed').
C4_CompletedAtAssignedOnce ==
    UpdatedOrder =>
        (lastStmt.old[1].completed_at # Null
            => orders[lastStmt.id].completed_at = lastStmt.old[1].completed_at)

\* C4 amended: completed_at is assigned at every transition into 'completed'
\* from another status (a row that re-enters 'completed' is stamped again with
\* the time of that write), and every other update leaves it as it was, so it is
\* never cleared.
C4_CompletedAtOnEveryTransition ==
    UpdatedOrder =>
        LET Old == lastStmt.old[1]
            New == orders[lastStmt.id]
        IN  IF Old.status # "completed" /\ New.status = "completed"
            THEN New.completed_at = Some(now)
            ELSE New.completed_at = Old.completed_at

\* C4 witness: a row that was completed before, left 'completed' and has just
\* entered it again
C4_Witness ==
    /\ UpdatedOrder
    /\ lastStmt.old[1].status # "completed"
    /\ lastStmt.old[1].completed_at # Null
    /\ orders[lastStmt.id].status = "completed"
    /\ orders[lastStmt.id].completed_at # lastStmt.old[1].completed_at

\* C5 as stated: after every update of an order row its last_activity_at is at
\* least what it was after the previous write of that row.
C5_LastActivityMonotonic ==
    UpdatedOrder =>
        /\ orders[lastStmt.id].last_activity_at # Null
        /\ lastStmt.old[1].last_activity_at # Null
        /\ orders[lastStmt.id].last_activity_at[1] >= lastStmt.old[1].last_activity_at[1]

-----------------------------------------------------------------------------
\* Properties of the customer rollups (checked under SpecRollup)

\* Customer c is of the order row's owner and has its name or its email
MatchesOrder(c, row) ==
    /\ c.user_id = row.user_id
    /\ \/ c.name = row.customer_name
       \/ (c.email # NullText /\ c.email = row.customer_email)

\* The customers stored before and after the latest statement
Surviving == DOMAIN customers \cap DOMAIN lastStmt.customers_before

SameRollup(c1, c2) ==
    c1.total_orders = c2.total_orders /\ c1.total_spent = c2.total_spent

RECURSIVE SumAmounts(_)
SumAmounts(ids) ==
    IF ids = {} THEN 0
    ELSE LET id == CHOOSE x \in ids : TRUE
         IN  orders[id].order_amount + SumAmounts(ids \ {id})

\* C6 as stated: an order insert raises total_orders by 1 and total_spent by
\* order_amount on every customer of the same owner that matches the order by
\* name or email.
C6_InsertRaisesRollup ==
    (lastStmt.op = "INSERT" /\ lastStmt.id \in DOMAIN orders) =>
        \A c \in Surviving :
            MatchesOrder(lastStmt.customers_before[c], orders[lastStmt.id]) =>
                /\ customers[c].total_orders = lastStmt.customers_before[c].total_orders + 1
                /\ customers[c].total_spent =
                       lastStmt.customers_before[c].total_spent + orders[lastStmt.id].order_amount

C8_UpdateAdjustsRollup ==
    UpdatedOrder =>
        LET Old == lastStmt.old[1]
            New == orders[lastStmt.id]
            before == lastStmt.customers_before
        IN  \A c \in Surviving :
                LET wasMatch == MatchesOrder(before[c], Old)
                    isMatch  == MatchesOrder(before[c], New)
                IN  /\ (wasMatch /\ isMatch) =>
                        /\ customers[c].total_spent =
                               before[c].total_spent + New.order_amount - Old.order_amount
                        /\ customers[c].total_orders = before[c].total_orders
                    /\ (wasMatch /\ ~isMatch) =>
                        /\ customers[c].total_spent = before[c].total_spent - Old.order_amount
                        /\ customers[c].total_orders = before[c].total_orders - 1
                    /\ (~wasMatch /\ isMatch) =>
                        /\ customers[c].total_spent = before[c].total_spent + New.order_amount
                        /\ customers[c].total_orders = before[c].total_orders + 1

\* C9 as stated: in every state each customer's total_orders is the number of
\* its owner's orders that match it by name or email, and total_spent is the sum
\* of their order_amount.
C9_RollupsEqualMatchingOrders ==
    \A c \in DOMAIN customers :
        LET matching == {id \in DOMAIN orders : MatchesOrder(customers[c], orders[id])}
        IN  /\ customers[c].total_orders = Cardinality(matching)
            /\ customers[c].total_spent = SumAmounts(matching)

\* C10 as stated: when several customers of the owner match the order that was
\* just inserted or deleted, the rollups of exactly one of them changed.
C10_ExactlyOneMatchAdjusted ==
    (lastStmt.op \in {"INSERT", "DELETE"} /\ lastStmt.id \in DOMAIN rollupAtInsert) =>
        LET row == IF lastStmt.op = "INSERT" THEN orders[lastStmt.id] ELSE lastStmt.old[1]
            matching == {c \in Surviving : MatchesOrder(lastStmt.customers_before[c], row)}
        IN  Cardinality(matching) >= 2 =>
                Cardinality({c \in matching :
                    ~SameRollup(customers[c], lastStmt.customers_before[c])}) = 1

\* The latest statement was a write of an order row by its owner
OrderWritten == lastStmt.op \in {"INSERT", "UPDATE", "DELETE"}

\* The versions of the order row the latest statement read or stored
WrittenRows ==
    (IF lastStmt.op \in {"UPDATE", "DELETE"} THEN {lastStmt.old[1]} ELSE {})
        \cup (IF lastStmt.op \in {"INSERT", "UPDATE"} THEN {orders[lastStmt.id]} ELSE {})

\* No customer stored before the latest statement matches the order it wrote
NoCustomerMatched ==
    \A c \in DOMAIN lastStmt.customers_before, row \in WrittenRows :
        ~MatchesOrder(lastStmt.customers_before[c], row)

\* C11: when no customer of the owner matches the order by name or email, an
\* insert, update or delete of that order takes effect (the row is stored,
\* or gone after a delete) and every customer row is left as it was.
C11_NoMatchIsNoOp ==
    (OrderWritten /\ NoCustomerMatched) =>
        /\ (lastStmt.id \in DOMAIN orders) = (lastStmt.op # "DELETE")
        /\ customers = lastStmt.customers_before

\* C11 witness: customers are stored, none of them matches the order row, and
\* the row has just been updated
C11_Witness ==
    /\ UpdatedOrder
    /\ NoCustomerMatched
    /\ DOMAIN customers # {}
    /\ lastStmt.old[1].order_amount # orders[lastStmt.id].order_amount

-----------------------------------------------------------------------------
\* Properties of the activity log (checked under Spec)

\* C12: an order insert appends exactly one order_activities row, of type
\* 'created', without old_values and with the stored row as new_values; an
\* order update appends exactly one row, of type 'updated', with the row before
\* the write as old_values and the row after it as new_values.
C12_OneActivityPerWrite ==
    [][ /\ lastStmt'.op = "INSERT" =>
              /\ Len(order_activities') = Len(order_activities) + 1
              /\ SubSeq(order_activities', 1, Len(order_activities)) = order_activities
              /\ LET a == order_activities'[Len(order_activities')]
                 IN  /\ a.order_id = lastStmt'.id
                     /\ a.activity_type = "created"
                     /\ a.old_values = Null
                     /\ a.new_values = Some(orders'[lastStmt'.id])
        /\ lastStmt'.op = "UPDATE" =>
              /\ Len(order_activities') = Len(order_activities) + 1
              /\ SubSeq(order_activities', 1, Len(order_activities)) = order_activities
              /\ LET a == order_activities'[Len(order_activities')]
                 IN  /\ a.order_id = lastStmt'.id
                     /\ a.activity_type = "updated"
                     /\ a.old_values = Some(orders[lastStmt'.id])
                     /\ a.new_values = Some(orders'[lastStmt'.id])
      ]_vars

\* C12 witness: the latest activity row is the 'updated' row of an update that
\* changed the stored row, and the same order's 'created' row precedes it
C12_Witness ==
    /\ UpdatedOrder
    /\ Len(order_activities) >= 2
    /\ LET a == order_activities[Len(order_activities)]
       IN  /\ a.activity_type = "updated"
           /\ a.old_values # a.new_values
           /\ \E i \in 1..(Len(order_activities) - 1) :
                  /\ order_activities[i].order_id = a.order_id
                  /\ order_activities[i].activity_type = "created"

\* The installed triggers that fire for the operation of the latest statement
Applicable == {tr \in OrderTriggers : lastStmt.op \in tr.ops}

\* C13: with the final trigger set, one insert or update of an order fires each
\* of its triggers exactly once and then ends: the logger's write fires no
\* trigger on orders again, neither the derivation triggers nor the logger.
C13_EachTriggerFiresOnce ==
    lastStmt.op \in {"INSERT", "UPDATE"} =>
        /\ \A tr \in OrderTriggers :
               Cardinality({i \in DOMAIN lastStmt.fired : lastStmt.fired[i] = tr.name})
                   = IF tr \in Applicable THEN 1 ELSE 0
        /\ Len(lastStmt.fired) = Cardinality(Applicable)

\* C13 witness: an update has fired its three BEFORE triggers and then the
\* logger, and nothing after it
C13_Witness ==
    /\ UpdatedOrder
    /\ Len(lastStmt.fired) = Cardinality(OrderTriggers)
    /\ lastStmt.fired[Len(lastStmt.fired)] = "log_order_activity_trigger"
    /\ order_activities[Len(order_activities)].order_id = lastStmt.id

\* C14 as stated (checked under SpecAudit): when the logger's insert into
\* order_activities fails, the order insert or update that fired it is still
\* persisted: the inserted row is stored, the updated row carries the update.
C14_OrderPersistsWhenAuditFails ==
    /\ lastStmt.op = "INSERT_ERROR" => lastStmt.id \in DOMAIN orders
    /\ lastStmt.op = "UPDATE_ERROR" =>
           /\ lastStmt.id \in DOMAIN orders
           /\ orders[lastStmt.id].updated_at = now

\* C15 (checked under Spec): order_activities is append-only. Every step leaves
\* it as it is, appends one row, or is the delete of an order and removes
\* exactly that order's rows; and every activity row references a stored order.
C15_ActivitiesAppendOnly ==
    [][ /\ \/ order_activities' = order_activities
           \/ /\ Len(order_activities') = Len(order_activities) + 1
              /\ SubSeq(order_activities', 1, Len(order_activities)) = order_activities
           \/ /\ lastStmt'.op = "DELETE"
              /\ lastStmt'.id \notin DOMAIN orders'
              /\ order_activities' =
                     SelectSeq(order_activities, LAMBDA a : a.order_id # lastStmt'.id)
        /\ \A i \in DOMAIN order_activities' :
               order_activities'[i].order_id \in DOMAIN orders'
      ]_vars

\* C15 witness: an order has just been deleted, its activity rows are gone and
\* the rows of another order, an update among them, are still there
C15_Witness ==
    /\ lastStmt.op = "DELETE"
    /\ Len(order_activities) >= 2
    /\ order_activities[Len(order_activities)].activity_type = "updated"
    /\ \A i \in DOMAIN order_activities : order_activities[i].order_id # lastStmt.id

-----------------------------------------------------------------------------
\* Properties of the analytics views (checked under SpecAnalytics)

\* The analytics on display were computed at time clock from the lists and the
\* window now in the state
Fresh == Len(localOrders) # 0 /\ Len(localCustomers) # 0 /\ analytics # Null

\* Days of the selected window
WindowDays ==
    CASE dateRange = "7d" -> 7 [] dateRange = "30d" -> 30 [] dateRange = "90d" -> 90

WindowStart == clock - WindowDays * TicksPerDay

\* The local day a Date falls on
DayOf(date) == date \div TicksPerDay

\* Orders dated in the window of WindowDays days that ends at clock
InWindowToNow ==
    {i \in DOMAIN localOrders :
        localOrders[i].orderDate >= WindowStart /\ localOrders[i].orderDate <= clock}

\* Orders dated at or after the start of that window
InWindow == {i \in DOMAIN localOrders : localOrders[i].orderDate >= WindowStart}

\* Orders dated in the window of equal length just before it
InPreviousWindow ==
    {i \in DOMAIN localOrders :
        /\ localOrders[i].orderDate >= WindowStart - WindowDays * TicksPerDay
        /\ localOrders[i].orderDate < WindowStart}

\* Revenue of the orders at the indices idx, an order counting with its
\* totalAmount unless that is missing or 0, and then with its orderAmount
RECURSIVE RevenueOf(_)
RevenueOf(idx) ==
    IF idx = {} THEN 0
    ELSE LET i == CHOOSE x \in idx : TRUE
         IN  OrderRevenue(localOrders[i]) + RevenueOf(idx \ {i})

\* Revenue of the orders at the indices idx, an order counting with its
\* totalAmount whenever it has one, 0 included
RECURSIVE StatedRevenueOf(_)
StatedRevenueOf(idx) ==
    IF idx = {} THEN 0
    ELSE LET i == CHOOSE x \in idx : TRUE
             o == localOrders[i]
         IN  (IF o.totalAmount # Null THEN o.totalAmount[1] ELSE o.orderAmount)
                 + StatedRevenueOf(idx \ {i})

CustomersOf(idx) == Cardinality({localOrders[i].customerName : i \in idx})

\* The number g is a / b
IsQuotient(g, a, b) == g.kind = "finite" /\ g.n * b = a * g.d

\* The number g is the growth from previous to current, in percent
IsGrowth(g, current, previous) ==
    IF previous = 0 THEN g = Zero
    ELSE IsQuotient(g, (current - previous) * 100, previous)

\* C16: the growth of revenue, of the order count and of the customer count is
\* exactly 0 whenever the corresponding figure of the previous window is 0,
\* for every order list and each of the windows.
C16_GrowthZeroOnZeroBaseline ==
    Fresh =>
        /\ RevenueOf(InPreviousWindow) = 0 => analytics[1].revenueGrowth = Zero
        /\ InPreviousWindow = {} => analytics[1].orderGrowth = Zero
        /\ CustomersOf(InPreviousWindow) = 0 => analytics[1].customerGrowth = Zero

\* C16 witness: there is revenue in the window, and the previous window holds
\* an order but no revenue, so that the order count did grow and revenue has no
\* baseline
C16_Witness ==
    /\ Fresh
    /\ InPreviousWindow # {}
    /\ RevenueOf(InPreviousWindow) = 0
    /\ analytics[1].totalRevenue > 0
    /\ analytics[1].orderGrowth # Zero

\* The totals and growth figures on display are those of the orders cur as the
\* current period against the orders of the previous window
GrowthOver(cur) ==
    /\ analytics[1].totalRevenue = RevenueOf(cur)
    /\ analytics[1].totalOrders = Cardinality(cur)
    /\ analytics[1].totalCustomers = CustomersOf(cur)
    /\ IsGrowth(analytics[1].revenueGrowth, RevenueOf(cur), RevenueOf(InPreviousWindow))
    /\ IsGrowth(analytics[1].orderGrowth, Cardinality(cur), Cardinality(InPreviousWindow))
    /\ IsGrowth(analytics[1].customerGrowth, CustomersOf(cur), CustomersOf(InPreviousWindow))

MonthAndDay(day) ==
    LET c == YearOfDay(EpochYear, day) IN << c.month, c.day >>

\* C18: the daily series of an N-day window has exactly N entries, one for each
\* of the N calendar days that end with the day of now, in ascending order, no
\* date twice, each with the revenue and number of the window's orders of that
\* day, 0 where there are none.
C18_DailySeries ==
    Fresh =>
        LET daily == analytics[1].dailyRevenue
            day(i) == DayOf(clock) - (WindowDays - i)
            on(i) == {k \in InWindow : DayOf(localOrders[k].orderDate) = day(i)}
        IN  /\ Len(daily) = WindowDays
            /\ \A i \in 1..Len(daily) :
                   /\ daily[i].date = MonthAndDay(day(i))
                   /\ daily[i].revenue = RevenueOf(on(i))
                   /\ daily[i].orders = Cardinality(on(i))
            /\ \A i, j \in 1..Len(daily) : i # j => daily[i].date # daily[j].date

\* C18 witness: a 90-day series that starts in one year and ends in the next,
\* with orders on some of its days and none on others
C18_Witness ==
    /\ Fresh
    /\ dateRange = "90d"
    /\ LET daily == analytics[1].dailyRevenue
       IN  /\ daily[1].date[1] > daily[Len(daily)].date[1]
           /\ \E i \in DOMAIN daily : daily[i].orders > 0 /\ daily[i].revenue > 0
           /\ \E i \in DOMAIN daily : daily[i].orders = 0 /\ daily[i].revenue = 0

\* C19 as stated: the monthly series has 6 entries, one for each of the last 6
\* calendar months in ascending order (so no month label twice), each with the
\* revenue, the number and the number of distinct customers of the orders dated
\* in that month.
C19_MonthlySeries ==
    Fresh =>
        LET monthly == analytics[1].monthlyTrends
            today == YearOfDay(EpochYear, DayOf(clock))
            m(i) == today.year * 12 + (today.month - 1) - (6 - i)
            label(i) == << (m(i) % 12) + 1, m(i) \div 12 >>
            in(i) == {k \in DOMAIN localOrders :
                         LET c == YearOfDay(EpochYear, DayOf(localOrders[k].orderDate))
                         IN  << c.month, c.year >> = label(i)}
        IN  /\ Len(monthly) = 6
            /\ \A i \in 1..Len(monthly) :
                   /\ monthly[i].month = label(i)
                   /\ monthly[i].revenue = RevenueOf(in(i))
                   /\ monthly[i].orders = Cardinality(in(i))
                   /\ monthly[i].customers = CustomersOf(in(i))

\* C20 as stated: total revenue is the sum over the window's orders of
\* totalAmount where an order has one (a totalAmount of 0 included) and of
\* orderAmount where it has none; the average order value is revenue divided by
\* the number of orders, and 0 when there are none. The same for the totals of
\* AnalyticsDashboard over all orders.
C20_RevenueAndAverage ==
    /\ Fresh =>
           /\ analytics[1].totalRevenue = StatedRevenueOf(InWindow)
           /\ IF InWindow = {} THEN analytics[1].averageOrderValue = Zero
              ELSE IsQuotient(analytics[1].averageOrderValue,
                              StatedRevenueOf(InWindow), Cardinality(InWindow))
    /\ dashboard.totalRevenue = StatedRevenueOf(DOMAIN localOrders)
    /\ IF localOrders = <<>> THEN dashboard.avgOrderValue = Zero
       ELSE IsQuotient(dashboard.avgOrderValue,
                       StatedRevenueOf(DOMAIN localOrders), Len(localOrders))

\* C21 as stated: the analytics on display are always the aggregate of the
\* order list and window now in the state, also once the order list or the
\* customer list has become empty.
C21_AnalyticsFollowOrders ==
    analytics # Null =>
        /\ analytics[1].totalOrders = Cardinality(InWindow)
        /\ analytics[1].totalRevenue = RevenueOf(InWindow)
        /\ analytics[1].totalCustomers = CustomersOf(InWindow)

\* The sum of f[i] over the entries i of a series whose f[i] is not 0
RECURSIVE SumAt(_, _)
SumAt(f, idx) ==
    IF idx = {} THEN 0
    ELSE LET i == CHOOSE x \in idx : TRUE IN f[i] + SumAt(f, idx \ {i})

\* C30 as stated: the orders of the daily entries add up to totalOrders and
\* their revenue to totalRevenue, for every order list, now and window.
C30_DailySeriesAddsUp ==
    Fresh =>
        LET daily == analytics[1].dailyRevenue
            count == [i \in DOMAIN daily |-> daily[i].orders]
            money == [i \in DOMAIN daily |-> daily[i].revenue]
        IN  /\ SumAt(count, {i \in DOMAIN daily : count[i] # 0}) = analytics[1].totalOrders
            /\ SumAt(money, {i \in DOMAIN daily : money[i] # 0}) = analytics[1].totalRevenue

-----------------------------------------------------------------------------
\* Further properties of the order rows and the activity log

\* C29 as stated (checked under Spec): every stored order with status
\* 'completed' has a completed_at, also when it was inserted as 'completed'.
C29_CompletedHasCompletedAt ==
    \A id \in DOMAIN orders :
        orders[id].status = "completed" => orders[id].completed_at # Null

\* The places in order_activities of the rows of order id, oldest first
ActivitiesOf(id) ==
    SelectSeq([i \in DOMAIN order_activities |-> i],
              LAMBDA i : order_activities[i].order_id = id)

\* C27 (checked under Spec): the activity rows of each stored order form a
\* chain of the rows as they were persisted: the first has no old_values, each
\* later one has the new_values of the one before it as old_values, and the
\* latest has the stored row, derived total_amount, completed_at and
\* last_activity_at included, as new_values.
C27_SnapshotsArePersistedRows ==
    \A id \in DOMAIN orders :
        LET at == ActivitiesOf(id)
        IN  /\ at # <<>>
            /\ order_activities[at[1]].old_values = Null
            /\ \A k \in 2..Len(at) :
                   order_activities[at[k]].old_values = order_activities[at[k - 1]].new_values
            /\ order_activities[at[Len(at)]].new_values = Some(orders[id])

\* C27 witness: an order has just been updated into 'completed'; its latest
\* activity row carries the completed_at and last_activity_at of this write and
\* a total_amount that differs from the one in its old_values
C27_Witness ==
    /\ UpdatedOrder
    /\ LET a == order_activities[Len(order_activities)]
       IN  /\ a.order_id = lastStmt.id
           /\ a.old_values # Null
           /\ a.new_values[1].completed_at = Some(now)
           /\ a.new_values[1].last_activity_at = Some(now)
           /\ a.old_values[1].completed_at = Null
           /\ orders[lastStmt.id].total_amount # Null

\* C26 (checked under Spec20250921): with log_order_activity of migration
\* 20250921065616 installed, an insert or update of an order fires the logger
\* again from the update the logger itself executes, at every nesting depth, so
\* the chain of firings only ends at the stack depth limit.
C26_LoggerReenters ==
    lastStmt.op \in {"INSERT_20250921", "UPDATE_20250921"} =>
        /\ HitDepthLimit(lastStmt.fired)
        /\ Cardinality({i \in DOMAIN lastStmt.fired :
                            lastStmt.fired[i] = "log_order_activity_trigger"}) = MaxDepth + 1

\* C26 witness: an update of a stored row has fired the logger more than once
\* and left the row and the activity log as they were
C26_Witness ==
    /\ lastStmt.op = "UPDATE_20250921"
    /\ lastStmt.id \in DOMAIN orders
    /\ orders[lastStmt.id] = lastStmt.old[1]
    /\ Cardinality({i \in DOMAIN lastStmt.fired :
                        lastStmt.fired[i] = "log_order_activity_trigger"}) > 1

-----------------------------------------------------------------------------
\* C28: after any sequence of createOrder and deleteOrder calls by one owner,
\* no two of that owner's orders share the same order_id: an identifier
\* generated from the local order count + 1 differs from the order_id of
\* every order that exists
C28_OrderIdsDistinct ==
    \A i, j \in DOMAIN orders :
        (i # j /\ orders[i].user_id = orders[j].user_id)
            => orders[i].order_id # orders[j].order_id

-----------------------------------------------------------------------------
\* The rows the latest handler added to public.orders
Persisted == DOMAIN orders \ DOMAIN lastCall.orders_before

\* The calls the latest handler made to the send-notification function
Notifications == SelectSeq(calls, LAMBDA c : c.fn = "send-notification")

-----------------------------------------------------------------------------
\* The rows a bulk action of user U on the selection S addresses
BulkTargets ==
    {id \in DOMAIN lastCall.orders_before :
        /\ lastCall.user # Null
        /\ lastCall.orders_before[id].user_id = lastCall.user[1].id
        /\ \E k \in DOMAIN lastCall.selectedOrders :
               lastCall.selectedOrders[k] = lastCall.orders_before[id].order_id}

\* The latest step was a bulk action and no statement has followed it
BulkActionRan ==
    /\ lastCall.handler = "executeBulkAction"
    /\ \/ now = lastCall.now_before
       \/ /\ now = lastCall.now_before + 1
          /\ lastStmt.op \in {"UPDATE_WHERE", "DELETE_WHERE", "UPDATE_ERROR", "DELETE_ERROR"}

\* The latest bulk action issued its statement and the store carried it out
BulkWritten ==
    /\ BulkActionRan
    /\ now # lastCall.now_before
    /\ lastStmt.op \in {"UPDATE_WHERE", "DELETE_WHERE"}

\* C22: a bulk status, priority, archive or delete action of owner U on the
\* selected order ids S affects exactly the orders whose order_id is in S and
\* whose owner is U and leaves every other order as it was; with an empty
\* selection or no chosen action no statement is issued
C22_BulkActionFrame ==
    BulkActionRan =>
        LET before == lastCall.orders_before
        IN  /\ DOMAIN orders \subseteq DOMAIN before
            /\ \A id \in DOMAIN before \ BulkTargets :
                   id \in DOMAIN orders /\ orders[id] = before[id]
            /\ (lastCall.selectedAction = "" \/ Len(lastCall.selectedOrders) = 0) =>
                   now = lastCall.now_before /\ orders = before
            /\ BulkWritten =>
                   \A id \in BulkTargets :
                       CASE lastCall.selectedAction = "update_status" ->
                                id \in DOMAIN orders /\ orders[id].status = lastCall.newStatus
                         [] lastCall.selectedAction = "update_priority" ->
                                id \in DOMAIN orders /\ orders[id].priority = lastCall.newPriority
                         [] lastCall.selectedAction = "archive" ->
                                id \in DOMAIN orders /\ orders[id].status = "completed"
                         [] lastCall.selectedAction = "delete" -> id \notin DOMAIN orders

\* A bulk status update was carried out on an order of its user while another
\* user holds an order with the same order_id
C22_Witness ==
    /\ BulkWritten
    /\ lastCall.selectedAction = "update_status"
    /\ \E id \in BulkTargets, other \in DOMAIN orders \ BulkTargets :
           /\ orders[other].order_id = orders[id].order_id
           /\ orders[id].status = "shipped"
           /\ orders[other].status = "pending"

\* C23: an export with no column selected is rejected and the export callback
\* is not invoked; an export of N columns produces a header of exactly N
\* fields and, for every order, one row of exactly N values, whatever the
\* fields hold
C23_ExportShape ==
    /\ (lastCall.handler = "handleExport" /\ Len(lastCall.selectedColumns) = 0) =>
           calls = <<>>
    /\ \A k \in DOMAIN calls :
           calls[k].fn = "download" =>
               LET counts == FieldCounts(calls[k].content)
               IN  /\ Len(counts) = calls[k].rows + 1
                   /\ \A r \in DOMAIN counts : counts[r] = calls[k].columns

-----------------------------------------------------------------------------
\* A text holds nothing but white space
Blank(s) == \A i \in DOMAIN s : s[i] = " "

\* A text is a decimal number above zero: digits, with at most one point that
\* has a digit after it, not all of them 0
AboveZeroNumber(s) ==
    /\ s # <<>>
    /\ \A i \in DOMAIN s : IsDigit(s[i]) \/ (s[i] = "." /\ i < Len(s))
    /\ Cardinality({i \in DOMAIN s : s[i] = "."}) <= 1
    /\ \E i \in DOMAIN s : IsDigit(s[i]) /\ s[i] # "0"

\* The validation toasts that name a field the submitted form got wrong
Offences ==
    (IF Blank(inputs.customerName) THEN { NameRequired } ELSE {})
    \cup (IF ~AboveZeroNumber(inputs.orderAmount) THEN { AmountAboveZero } ELSE {})
    \cup (IF ~Blank(inputs.customerEmail) /\ ~includes(inputs.customerEmail, "@")
          THEN { EmailInvalid } ELSE {})

\* C24: a create-order form submitted with a blank customer name, with an
\* amount that is missing, not a number or not above 0, or with an email that
\* is not empty and has no @ is rejected: the submit callback is not invoked,
\* nothing is stored, and one validation error naming an offending field is shown
C24_InvalidSubmissionsRejected ==
    (lastCall.handler = "handleSubmit" /\ Offences # {}) =>
        /\ calls = <<>>
        /\ orders = NoCols
        /\ Len(toasts) = 1
        /\ toasts[1] \in Offences

\* A form whose amount input holds text that is not a number was submitted and
\* rejected for its amount
C24_Witness ==
    /\ lastCall.handler = "handleSubmit"
    /\ inputs.orderAmount # <<>>
    /\ \E i \in DOMAIN inputs.orderAmount : inputs.orderAmount[i] = "a"
    /\ ~Blank(inputs.customerName)
    /\ calls = <<>>
    /\ toasts = << AmountAboveZero >>

====
